---- MODULE Spec2Model ----
\* Verification model of the xlsx-engine tabular transformation engine:
\* identifier normalizer, column mapper, record extractor, value formatter and
\* sheet configurator, translated from the JavaScript sources under src/.
\*
\* Text is modelled as a sequence of one-character strings.  A character outside
\* ASCII is written by its code point ("U+00C1" is A with acute accent,
\* "U+5EA6" is the CJK ideograph that unidecode transliterates to "Du ").
\* A JavaScript value is a record tagged by its type in field t.
EXTENDS Naturals, Integers, Sequences, FiniteSets, TLC

VARIABLES
    pc,                     \* control point of the call in progress
    texto,                  \* normalizer: the value handed to toIdentifier
    identifiers,            \* normalizer: results of the successive toIdentifier calls
    headerCells,            \* worksheet: cell values of the header row, by column
    hiddenCols,             \* worksheet: numbers of the columns flagged hidden
    dataRows,               \* worksheet: the rows below the header, each by column
    initRow,                \* excelToJson: first row to extract
    rowNumber,              \* excelToJson: loop variable
    replacements,           \* setObjectReplacements: record of the row read last
    formattedReplacements,  \* excelToJson: records accumulated
    returned,               \* what the call returned or threw
    necessaryColumns,       \* getSheetColumnMap: required labels
    fileExcel,              \* excelToJson: path of the file
    sheetIndex,             \* excelToJson: index or name of the sheet
    headerIndex,            \* excelToJson: number of the header row
    sheetNames,             \* workbook read: names of its worksheets, by sheet id
    worksheet,              \* what getWorksheet returned or threw
    ioEvents,               \* file operations started so far
    fkey,                   \* formatData: key
    fvalue,                 \* formatData: value
    tzOffset,               \* host getTimezoneOffset() in minutes
    columns,                \* configureSheet: column specifications
    rows,                   \* configureSheet: row specifications
    rowIndex,               \* configureSheet: rows.forEach position
    sheetRows,              \* configureSheet: data cells written to the worksheet
    abaOculta,              \* workbook: column A of the HiddenSelect worksheet
    listaMapeada,           \* configureSheet: dedup key -> first row
    config,                 \* configureSheet: configuration bundle
    autoFilter,             \* worksheet.autoFilter
    widths,                 \* worksheet.columns[i].width
    views,                  \* worksheet.views[0]
    sheetConfigs,           \* createExcelXlsx: sheetConfigOrName
    sheetNumber,            \* createExcelXlsx: sheetConfigs.forEach position
    worksheets,             \* workbook: the worksheets configured so far
    logged,                 \* console: what the call logged last
    csvContent,             \* the text of the CSV file
    lineNumber,             \* csvToXlsx: lines read so far
    facadePromise           \* Excel.createExcelCsv: how the promise it returned settled

normVars == <<texto, identifiers>>
sheetVars == <<headerCells, hiddenCols, dataRows>>
extractVars == <<initRow, rowNumber, replacements, formattedReplacements>>
openVars == <<necessaryColumns, fileExcel, sheetIndex, headerIndex, sheetNames, worksheet>>
mapVars == <<openVars, ioEvents>>
formatVars == <<fkey, fvalue, tzOffset>>
layoutVars == <<config, autoFilter, widths, views>>
bookVars == <<sheetConfigs, sheetNumber, worksheets, logged>>
csvVars == <<csvContent, lineNumber, facadePromise>>
createVars == <<columns, rows, rowIndex, sheetRows, abaOculta, listaMapeada, layoutVars, bookVars, csvVars>>
\* createVars without the console
builtVars == <<columns, rows, rowIndex, sheetRows, abaOculta, listaMapeada, layoutVars,
               sheetConfigs, sheetNumber, worksheets, csvVars>>
vars == <<pc, returned, normVars, sheetVars, extractVars, mapVars, formatVars, createVars>>

-----------------------------------------------------------------------------
\* Bounds of the model.

\* longest label handed to the normalizer
MaxLen == 4
\* number of successive toIdentifier calls
MaxCalls == 2
\* columns of the worksheet a single record is built from
MaxCols == 3
\* columns and data rows of the worksheet excelToJson extracts
ExtractCols == 2
MaxRows == 2
\* longest list of required labels
MaxRequired == 2
\* columns and row records handed to configureSheet
MaxColumns == 2
MaxRecords == 2
\* sheets of one createExcelXlsx call
MaxSheets == 2
\* rows of the one-column sheet whose cells are styled and validated
MaxCellRows == 2

-----------------------------------------------------------------------------
\* JavaScript values.

Undefined == [t |-> "undefined"]
Null == [t |-> "null"]
Str(s) == [t |-> "string", s |-> s]
Num(n) == [t |-> "number", n |-> n]
Bool(b) == [t |-> "boolean", b |-> b]

\* an object value: a formula cell carries a result, rich text does not
Obj(hasResult, result) == [t |-> "object", hasResult |-> hasResult, result |-> result]
RichText == Obj(FALSE, Undefined)

IsString(v) == v.t = "string"

\* ToBoolean
Truthy(v) ==
    CASE v.t \in {"undefined", "null"} -> FALSE
      [] v.t = "string" -> v.s # <<>>
      [] v.t = "number" -> v.n # 0
      [] v.t = "boolean" -> v.b
      [] OTHER -> TRUE

DigitChar(d) == <<"0", "1", "2", "3", "4", "5", "6", "7", "8", "9">>[d + 1]

\* String(n) of a non-negative integer
RECURSIVE numberToString(_)
numberToString(n) ==
    IF n < 10 THEN <<DigitChar(n)>>
    ELSE numberToString(n \div 10) \o <<DigitChar(n % 10)>>

\* value idle variables hold outside the component that owns them
None == [t |-> "none"]

-----------------------------------------------------------------------------
\* String primitives of the host language and of the unidecode package.

WhiteSpace == {" ", "\t", "\n", "U+00A0", "U+FEFF"}

RECURSIVE trimStart(_)
trimStart(s) ==
    IF s = <<>> THEN s
    ELSE IF Head(s) \in WhiteSpace THEN trimStart(Tail(s)) ELSE s

RECURSIVE trimEnd(_)
trimEnd(s) ==
    IF s = <<>> THEN s
    ELSE IF s[Len(s)] \in WhiteSpace THEN trimEnd(SubSeq(s, 1, Len(s) - 1)) ELSE s

trim(s) == trimEnd(trimStart(s))

lowerChar(c) ==
    CASE c = "A" -> "a"
      [] c = "D" -> "d"
      [] c = "N" -> "n"
      [] c = "U+00C1" -> "U+00E1"
      [] OTHER -> c

toLowerCase(s) == [i \in 1..Len(s) |-> lowerChar(s[i])]

upperChar(c) ==
    CASE c = "a" -> "A"
      [] c = "d" -> "D"
      [] c = "e" -> "E"
      [] c = "i" -> "I"
      [] c = "m" -> "M"
      [] c = "n" -> "N"
      [] c = "o" -> "O"
      [] c = "U+00E1" -> "U+00C1"
      [] OTHER -> c

toUpperCase(s) == [i \in 1..Len(s) |-> upperChar(s[i])]

\* unidecode of one character: ASCII is kept, a Latin letter loses its
\* diacritic, the no-break space becomes a space, and a CJK ideograph becomes
\* its capitalised romanisation followed by a space.
unidecodeChar(c) ==
    CASE c = "U+00E1" -> <<"a">>
      [] c = "U+00C1" -> <<"A">>
      [] c = "U+00A0" -> <<" ">>
      [] c = "U+5EA6" -> <<"D", "u", " ">>
      [] OTHER -> <<c>>

RECURSIVE unidecode(_)
unidecode(s) ==
    IF s = <<>> THEN <<>> ELSE unidecodeChar(Head(s)) \o unidecode(Tail(s))

\* String.prototype.replace(/ /g, "_")
replaceSpaces(s) == [i \in 1..Len(s) |-> IF s[i] = " " THEN "_" ELSE s[i]]

-----------------------------------------------------------------------------
\* Identifier normalizer.

\* formatTextToIdentifier without the trim after the transliteration
formatTextToIdentifierNoTrim(v) ==
    IF ~IsString(v) THEN Null
    ELSE Str(replaceSpaces(unidecode(toLowerCase(v.s))))

\* The result of the first trim (line 129) is overwritten by line 130, which
\* starts again from texto.
formatTextToIdentifier(v) ==
    IF ~IsString(v) THEN Null
    ELSE Str(replaceSpaces(trim(unidecode(toLowerCase(v.s)))))

-----------------------------------------------------------------------------
\* Idle values of each component's variables.

NormIdle == texto = None /\ identifiers = <<>>
SheetIdle == headerCells = <<>> /\ hiddenCols = {} /\ dataRows = <<>>
ExtractIdle ==
    /\ initRow = 0
    /\ rowNumber = 0
    /\ replacements = <<>>
    /\ formattedReplacements = <<>>
OpenIdle ==
    /\ fileExcel = None
    /\ sheetIndex = None
    /\ headerIndex = None
    /\ sheetNames = <<>>
    /\ worksheet = None
    /\ ioEvents = <<>>
MapIdle == necessaryColumns = None /\ OpenIdle
FormatIdle == fkey = None /\ fvalue = None /\ tzOffset = 0
LayoutIdle == config = None /\ autoFilter = None /\ widths = <<>> /\ views = None
BookIdle == sheetConfigs = None /\ sheetNumber = 0 /\ worksheets = <<>> /\ logged = None
CsvIdle == csvContent = <<>> /\ lineNumber = 0 /\ facadePromise = None
CreateIdle ==
    /\ columns = <<>>
    /\ rows = <<>>
    /\ rowIndex = 0
    /\ sheetRows = <<>>
    /\ abaOculta = <<>>
    /\ listaMapeada = <<>>
    /\ LayoutIdle /\ BookIdle /\ CsvIdle

-----------------------------------------------------------------------------
\* Specification of the normalizer: toIdentifier applied to a label, then to
\* its own result.

Alphabet == {"a", "A", " ", "_", "\t", "U+00C1", "U+5EA6"}

RECURSIVE StringsUpTo(_)
StringsUpTo(n) ==
    IF n = 0 THEN {<<>>}
    ELSE LET shorter == StringsUpTo(n - 1)
         IN  shorter \cup {Append(s, c) : s \in {x \in shorter : Len(x) = n - 1}, c \in Alphabet}

NonStrings == {Null, Undefined, Num(7), Bool(TRUE)}

InitNorm ==
    /\ pc = "idle"
    /\ returned = None
    /\ texto \in {Str(s) : s \in StringsUpTo(MaxLen)} \cup NonStrings
    /\ identifiers = <<>>
    /\ SheetIdle /\ ExtractIdle /\ MapIdle /\ FormatIdle /\ CreateIdle

toIdentifier ==
    /\ Len(identifiers) < MaxCalls
    /\ LET value == IF identifiers = <<>> THEN texto ELSE identifiers[Len(identifiers)]
       IN  identifiers' = Append(identifiers, formatTextToIdentifier(value))
    /\ UNCHANGED <<pc, returned, texto, sheetVars, extractVars, mapVars, formatVars, createVars>>

NextNorm == toIdentifier

SpecNorm == InitNorm /\ [][NextNorm]_vars

\* ---- claims about the normalizer (checked under SpecNorm) ----

Diacritics == {"U+00C1", "U+00E1"}

CharsOf(s) == {s[i] : i \in 1..Len(s)}

\* C4: formatTextToIdentifier is idempotent on every string, and its output
\* holds no space and no character carrying a diacritic.
C4_Idempotent ==
    (IsString(texto) /\ Len(identifiers) >= 2) =>
        /\ identifiers[2] = identifiers[1]
        /\ CharsOf(identifiers[1].s) \cap ({" "} \cup Diacritics) = {}

RECURSIVE dropSpaces(_)
dropSpaces(s) ==
    IF s # <<>> /\ Head(s) = " " THEN dropSpaces(Tail(s)) ELSE s

\* every run of consecutive spaces becomes one "_"
RECURSIVE collapseRuns(_)
collapseRuns(s) ==
    IF s = <<>> THEN <<>>
    ELSE IF Head(s) = " " THEN <<"_">> \o collapseRuns(dropSpaces(s))
    ELSE <<Head(s)>> \o collapseRuns(Tail(s))

\* the label trimmed, lower-cased, stripped of diacritics and trimmed again
Cleaned(s) == trim(unidecode(toLowerCase(trim(s))))

-----------------------------------------------------------------------------
\* Record extractor: setObjectReplacements.
\* A record is the sequence of its entries in insertion order (Object.keys order).

KeysOf(obj) == {obj[i].key : i \in 1..Len(obj)}

hasOwnProperty(obj, key) == key \in KeysOf(obj)

\* obj[key] = value
setProperty(obj, key, value) ==
    IF hasOwnProperty(obj, key)
    THEN [i \in 1..Len(obj) |-> IF obj[i].key = key THEN [key |-> key, value |-> value] ELSE obj[i]]
    ELSE Append(obj, [key |-> key, value |-> value])

\* the suffix loop taken once at most (an if in place of the while)
uniqueKeyOnce(obj, upString, newKey, counter) ==
    IF hasOwnProperty(obj, newKey)
    THEN upString \o <<"_">> \o numberToString(counter + 1)
    ELSE newKey

\* while (replacements.hasOwnProperty(newKey)) { counter++; newKey = `${upString}_${counter}` }
RECURSIVE uniqueKey(_, _, _, _)
uniqueKey(obj, upString, newKey, counter) ==
    IF hasOwnProperty(obj, newKey)
    THEN uniqueKey(obj, upString, upString \o <<"_">> \o numberToString(counter + 1), counter + 1)
    ELSE newKey

\* headerRow.getCell(colNumber).value
getCell(row, colNumber) == IF colNumber \in 1..Len(row) THEN row[colNumber] ELSE Null

\* the callback of row.eachCell for one cell, which eachCell calls for the
\* cells that hold a value only
eachCellCallback(obj, cell, colNumber, headerRow, hidden) ==
    LET columnCell == getCell(headerRow, colNumber)
    IN  IF Truthy(columnCell) /\ colNumber \notin hidden
        THEN LET upString == formatTextToIdentifier(columnCell)
             IN  IF Truthy(upString)
                 THEN setProperty(obj, uniqueKey(obj, upString.s, upString.s, 1), cell)
                 ELSE obj
        ELSE obj

RECURSIVE eachCell(_, _, _, _, _)
eachCell(obj, row, colNumber, headerRow, hidden) ==
    IF colNumber > Len(row) THEN obj
    ELSE eachCell(
            IF row[colNumber] = Null THEN obj
            ELSE eachCellCallback(obj, row[colNumber], colNumber, headerRow, hidden),
            row, colNumber + 1, headerRow, hidden)

\* setObjectReplacements with the hidden flag of the column ignored
setObjectReplacementsHiddenIgnored(row, headerRow, hidden) == eachCell(<<>>, row, 1, headerRow, {})

setObjectReplacements(row, headerRow, hidden) == eachCell(<<>>, row, 1, headerRow, hidden)

-----------------------------------------------------------------------------
\* Specification of the record extractor on one data row of a worksheet whose
\* columns may be hidden (hiddenColumns) before the row is read.

Nome == <<"N", "o", "m", "e">>
nome == <<"n", "o", "m", "e">>

HeaderValues == {Null, Str(Nome), Str(nome \o <<"_", "2">>), Str(<<" ">>), Num(7), RichText}

\* the text of the data cell of a column, distinct for each column
CellText(colNumber) == Str(<<"v", DigitChar(colNumber)>>)

InitRecord ==
    /\ pc = "file"
    /\ returned = None
    /\ headerCells \in [1..MaxCols -> HeaderValues]
    /\ hiddenCols = {}
    /\ \E row \in [1..MaxCols -> BOOLEAN] :
          dataRows = <<[c \in 1..MaxCols |-> IF row[c] THEN CellText(c) ELSE Null]>>
    /\ initRow = 2
    /\ rowNumber = 0
    /\ replacements = <<>>
    /\ formattedReplacements = <<>>
    /\ NormIdle /\ MapIdle /\ FormatIdle /\ CreateIdle

\* worksheet.getColumn(startColumn + i).hidden = true for i < numColumns
hiddenColumns(startColumn, numColumns) ==
    /\ pc = "file"
    /\ hiddenCols' = hiddenCols \cup {startColumn + i : i \in 0..(numColumns - 1)}
    /\ UNCHANGED <<pc, returned, headerCells, dataRows, normVars, extractVars, mapVars, formatVars, createVars>>

readRow ==
    /\ pc = "file"
    /\ pc' = "read"
    /\ rowNumber' = initRow
    /\ replacements' = setObjectReplacements(dataRows[initRow - 1], headerCells, hiddenCols)
    /\ UNCHANGED <<returned, sheetVars, initRow, formattedReplacements, normVars, mapVars, formatVars, createVars>>

NextRecord ==
    \/ \E startColumn \in 1..MaxCols : \E numColumns \in 1..(MaxCols - startColumn + 1) :
          hiddenColumns(startColumn, numColumns)
    \/ readRow

SpecRecord == InitRecord /\ [][NextRecord]_vars

\* ---- claims about setObjectReplacements (checked under SpecRecord) ----

\* the data row the record is built from
TheRow == dataRows[initRow - 1]

HeaderIdentifier(c) == formatTextToIdentifier(getCell(headerCells, c))

\* the column's value is a value of the record
InRecord(c) == TheRow[c] # Null /\ \E i \in 1..Len(replacements) : replacements[i].value = TheRow[c]

\* a column that contributes: its header yields a non-empty identifier, it is
\* not hidden and the row's cell holds a value
Contributing(c) ==
    /\ IsString(getCell(headerCells, c))
    /\ HeaderIdentifier(c).s # <<>>
    /\ c \notin hiddenCols
    /\ TheRow[c] # Null

\* the column whose cell is the value of entry i (cell texts differ by column)
ColumnOfEntry(i) == CHOOSE c \in 1..MaxCols : TheRow[c] = replacements[i].value

EarlierKeys(j) == {replacements[i].key : i \in 1..(j - 1)}

Suffixed(b, n) == b \o <<"_">> \o numberToString(n)

\* key is b_n for the smallest n >= 2 such that b_n is not among taken
SmallestFreeSuffix(key, b, taken) ==
    \E n \in 2..(MaxCols + 1) :
        /\ key = Suffixed(b, n)
        /\ key \notin taken
        /\ \A m \in 2..(n - 1) : Suffixed(b, m) \in taken

\* one entry per contributing column, in column order, none lost or overwritten
OneEntryPerContributingColumn ==
    /\ Len(replacements) = Cardinality({c \in 1..MaxCols : Contributing(c)})
    /\ \A c \in 1..MaxCols : Contributing(c) => InRecord(c)
    /\ \A i, j \in 1..Len(replacements) :
          i < j => /\ replacements[i].key # replacements[j].key
                   /\ ColumnOfEntry(i) < ColumnOfEntry(j)

\* C1 as stated: one distinct key per contributing column; the first
\* contributing column whose header normalises to b gets key b, every later one
\* with the same identifier gets b_n for the smallest n >= 2 with b_n not yet a
\* key; no contributing cell's value is overwritten or lost.
C1_FirstGetsBareKey ==
    pc = "read" =>
        /\ OneEntryPerContributingColumn
        /\ \A j \in 1..Len(replacements) :
              LET b == HeaderIdentifier(ColumnOfEntry(j)).s
                  first == \A i \in 1..(j - 1) : HeaderIdentifier(ColumnOfEntry(i)).s # b
              IN  IF first THEN replacements[j].key = b
                  ELSE SmallestFreeSuffix(replacements[j].key, b, EarlierKeys(j))

\* C1 amended: one distinct key per contributing column; a contributing column
\* whose header normalises to b gets key b when b is not yet a key of the
\* record, and otherwise b_n for the smallest n >= 2 with b_n not yet a key;
\* no contributing cell's value is overwritten or lost.
C1_KeyFreeOrSuffixed ==
    pc = "read" =>
        /\ OneEntryPerContributingColumn
        /\ \A j \in 1..Len(replacements) :
              LET b == HeaderIdentifier(ColumnOfEntry(j)).s
              IN  IF b \notin EarlierKeys(j) THEN replacements[j].key = b
                  ELSE SmallestFreeSuffix(replacements[j].key, b, EarlierKeys(j))

\* C1 witness: headers Nome, Nome, nome_2 with every cell populated were read
\* into the keys nome, nome_2, nome_2_2.
C1_Witness ==
    /\ pc = "read"
    /\ headerCells = <<Str(Nome), Str(Nome), Str(nome \o <<"_", "2">>)>>
    /\ [i \in 1..Len(replacements) |-> replacements[i].key]
          = <<nome, nome \o <<"_", "2">>, nome \o <<"_", "2", "_", "2">>>>

\* C2 as stated: a column contributes a key to the record if and only if its
\* header cell holds a non-empty string, the column is not hidden and the row's
\* cell is populated.
C2_NonEmptyStringHeader ==
    pc = "read" =>
        \A c \in 1..MaxCols :
            InRecord(c) <=>
                /\ IsString(getCell(headerCells, c))
                /\ getCell(headerCells, c).s # <<>>
                /\ c \notin hiddenCols
                /\ TheRow[c] # Null

\* C2 amended: a column contributes a key to the record if and only if its
\* header cell holds a string that normalises to a non-empty identifier (so not
\* a string of whitespace only), the column is not hidden and the row's cell is
\* populated; an empty, non-string or hidden column contributes nothing.
C2_IdentifierHeader ==
    pc = "read" => \A c \in 1..MaxCols : InRecord(c) <=> Contributing(c)

\* C2 witness: a record was read from a row whose populated cells lie under a
\* hidden string-headed column, a numeric header, and a visible string header.
C2_Witness ==
    /\ pc = "read"
    /\ headerCells = <<Str(Nome), Num(7), Str(Nome)>>
    /\ hiddenCols = {1}
    /\ \A c \in 1..MaxCols : TheRow[c] # Null
    /\ Len(replacements) = 1
    /\ replacements[1] = [key |-> nome, value |-> CellText(3)]

\* the row of the same worksheet whose cells are all populated
FullRow == [c \in 1..MaxCols |-> CellText(c)]

\* the key under which the record holds the value
KeyOfValue(record, value) ==
    (CHOOSE e \in {record[i] : i \in 1..Len(record)} : e.value = value).key

\* C27: with the header row fixed, a column's value appears under the same key
\* in every record that contains the column: the key it has in the record of
\* a fully populated row is its key in the record of any other row, also when
\* the cell of an earlier same-named column is empty.
C27_SameKeyInEveryRecord ==
    pc = "read" =>
        \A c \in 1..MaxCols :
            InRecord(c) =>
                KeyOfValue(replacements, TheRow[c])
                    = KeyOfValue(setObjectReplacements(FullRow, headerCells, hiddenCols), CellText(c))

-----------------------------------------------------------------------------
\* Value formatter: formatData, formatDate and the date helpers.
\* A date value is an instant counted in minutes from 2024-01-01T00:00Z; the
\* calendar covers December 2023 to February 2024.

DateValue(valid, time) == [t |-> "date", valid |-> valid, time |-> time]
InvalidDate == DateValue(FALSE, 0)

Throw(message) == [t |-> "throw", message |-> message]

\* the calendar fields of a count of minutes read as wall-clock time
FieldsOf(wall) ==
    LET d == wall \div 1440
    IN  [minutes |-> wall % 60,
         hours |-> (wall \div 60) % 24,
         date |-> IF d < 0 THEN 32 + d ELSE IF d < 31 THEN d + 1 ELSE d - 30,
         month |-> IF d < 0 THEN 11 ELSE IF d < 31 THEN 0 ELSE 1,
         fullYear |-> IF d < 0 THEN 2023 ELSE 2024]

\* getDate(), getMonth(), ... : the fields in the host's time zone, which lies
\* offset minutes behind UTC (getTimezoneOffset)
LocalFields(time, offset) == FieldsOf(time - offset)

\* date.setMinutes(date.getMinutes() + date.getTimezoneOffset())
setMinutesPlusOffset(time, offset) ==
    LET minutes == LocalFields(time, offset).minutes
    IN  time - minutes + (minutes + offset)

\* String.prototype.padStart(2, '0')
padStart2(s) == IF Len(s) < 2 THEN <<"0">> \o s ELSE s

months ==
    <<
        <<"j", "a", "n", "e", "i", "r", "o">>,
        <<"f", "e", "v", "e", "r", "e", "i", "r", "o">>,
        <<"m", "a", "r", "U+00E7", "o">>,
        <<"a", "b", "r", "i", "l">>,
        <<"m", "a", "i", "o">>,
        <<"j", "u", "n", "h", "o">>,
        <<"j", "u", "l", "h", "o">>,
        <<"a", "g", "o", "s", "t", "o">>,
        <<"s", "e", "t", "e", "m", "b", "r", "o">>,
        <<"o", "u", "t", "u", "b", "r", "o">>,
        <<"n", "o", "v", "e", "m", "b", "r", "o">>,
        <<"d", "e", "z", "e", "m", "b", "r", "o">>>>

\* String.prototype.includes
includes(s, sub) ==
    \E i \in 0..(Len(s) - Len(sub)) : SubSeq(s, i + 1, i + Len(sub)) = sub

horario == <<"h", "o", "r", "a", "r", "i", "o">>
extenso == <<"e", "x", "t", "e", "n", "s", "o">>

getScheduleDate(f) ==
    padStart2(numberToString(f.hours)) \o <<":">> \o padStart2(numberToString(f.minutes))

getExtendedDate(f) ==
    padStart2(numberToString(f.date)) \o <<" ", "d", "e", " ">> \o months[f.month + 1]
        \o <<" ", "d", "e", " ">> \o numberToString(f.fullYear)

formatFullDate(f) ==
    padStart2(numberToString(f.date)) \o <<"/">> \o padStart2(numberToString(f.month + 1))
        \o <<"/">> \o numberToString(f.fullYear)

\* formatDate with the two identifier tests in the other order
formatDateExtensoFirst(rule, dateValue, offset) ==
    IF ~dateValue.valid THEN Throw("Valor de data invalido fornecido.")
    ELSE LET f == LocalFields(setMinutesPlusOffset(dateValue.time, offset), offset)
         IN  IF includes(rule, extenso) THEN Str(getExtendedDate(f))
             ELSE IF includes(rule, horario) THEN Str(getScheduleDate(f))
             ELSE Str(formatFullDate(f))

formatDate(rule, dateValue, offset) ==
    IF ~dateValue.valid THEN Throw("Valor de data invalido fornecido.")
    ELSE LET f == LocalFields(setMinutesPlusOffset(dateValue.time, offset), offset)
         IN  IF includes(rule, horario) THEN Str(getScheduleDate(f))
             ELSE IF includes(rule, extenso) THEN Str(getExtendedDate(f))
             ELSE Str(formatFullDate(f))

\* String(value)
String(value) ==
    CASE value.t = "number" -> Str(numberToString(value.n))
      [] value.t = "boolean" -> Str(IF value.b THEN <<"t", "r", "u", "e">> ELSE <<"f", "a", "l", "s", "e">>)
      [] value.t = "null" -> Str(<<"n", "u", "l", "l">>)
      [] value.t = "undefined" -> Str(<<"u", "n", "d", "e", "f", "i", "n", "e", "d">>)
      [] OTHER -> value

formatData(key, value, offset) ==
    IF ~IsString(key) THEN Throw("A chave fornecida deve ser uma string.")
    ELSE IF value.t = "date" THEN formatDate(key.s, value, offset)
    ELSE IF value.t = "string" THEN Str(trim(value.s))
    ELSE IF value.t = "object"
         THEN (IF value.hasResult /\ Truthy(value.result) THEN value.result ELSE Str(<<>>))
    ELSE String(value)

IsThrow(v) == v.t = "throw"

-----------------------------------------------------------------------------
\* Specification of the value formatter: formatData applied to one field.

FormatKeys ==
    {Str(<<"d", "a", "t", "a">>),
     Str(<<"d", "a", "t", "a", "_">> \o horario),
     Str(<<"d", "a", "t", "a", "_">> \o extenso),
     Str(horario \o <<"_">> \o extenso),
     Str(extenso \o <<"_">> \o horario)}

\* minutes from 2024-01-01T00:00Z of a day (0 is 1 January) and a time of day
Instant(day, hours, minutes) == day * 1440 + hours * 60 + minutes

FormatDates ==
    {DateValue(TRUE, Instant(day, hm[1], hm[2])) :
        day \in {-1, 0, 14, 31}, hm \in {<<0, 0>>, <<9, 5>>, <<14, 30>>, <<23, 59>>}}
    \cup {InvalidDate}

FormatValues ==
    FormatDates
    \cup {Str(<<" ", "x", " ">>), Str(<<"x">>), Str(<<>>)}
    \cup {RichText, Obj(TRUE, Num(0)), Obj(TRUE, Num(5)), Obj(TRUE, Str(<<"x">>))}
    \cup {Num(0), Num(30), Bool(TRUE), Bool(FALSE), Null, Undefined}

\* getTimezoneOffset() of the host: UTC+1, UTC, UTC-3
HostOffsets == {-60, 0, 180}

InitFormat ==
    /\ pc = "call"
    /\ returned = None
    /\ fkey \in FormatKeys
    /\ fvalue \in FormatValues
    /\ tzOffset \in HostOffsets
    /\ NormIdle /\ SheetIdle /\ ExtractIdle /\ MapIdle /\ CreateIdle

callFormatData ==
    /\ pc = "call"
    /\ pc' = "formatted"
    /\ returned' = formatData(fkey, fvalue, tzOffset)
    /\ UNCHANGED <<normVars, sheetVars, extractVars, mapVars, formatVars, createVars>>

NextFormat == callFormatData

SpecFormat == InitFormat /\ [][NextFormat]_vars

\* ---- claims about the value formatter (checked under SpecFormat) ----

\* C7: formatData applies the rules in priority order: a date goes to the date
\* rule; otherwise text is trimmed; otherwise a non-null object yields its
\* result sub-field, and the empty string exactly when it has no result
\* sub-field; otherwise the value is stringified.
C7_PriorityOrder ==
    pc = "formatted" =>
        CASE fvalue.t = "date" -> returned = formatDate(fkey.s, fvalue, tzOffset)
          [] fvalue.t = "string" -> returned = Str(trim(fvalue.s))
          [] fvalue.t = "object" ->
                returned = (IF fvalue.hasResult THEN fvalue.result ELSE Str(<<>>))
          [] OTHER -> returned = String(fvalue)

TwoDigits(n) == <<DigitChar(n \div 10), DigitChar(n % 10)>>

\* C8: for a valid date the output format depends only on the field
\* identifier: containing "horario" gives zero-padded HH:MM (also when it
\* contains "extenso" too), otherwise containing "extenso" gives
\* "DD de <month name> de YYYY", otherwise zero-padded DD/MM/YYYY, of the
\* date's own (UTC) calendar fields whatever the host's time zone.
C8_FormatByIdentifier ==
    (pc = "formatted" /\ fvalue.t = "date" /\ fvalue.valid) =>
        LET f == FieldsOf(fvalue.time)
        IN  returned =
              IF includes(fkey.s, horario)
              THEN Str(TwoDigits(f.hours) \o <<":">> \o TwoDigits(f.minutes))
              ELSE IF includes(fkey.s, extenso)
              THEN Str(TwoDigits(f.date) \o <<" ", "d", "e", " ">> \o months[f.month + 1]
                          \o <<" ", "d", "e", " ">> \o numberToString(f.fullYear))
              ELSE Str(TwoDigits(f.date) \o <<"/">> \o TwoDigits(f.month + 1)
                          \o <<"/">> \o numberToString(f.fullYear))

\* C8 witness: key data_horario with 2024-01-15T14:30 was formatted to "14:30"
\* on a host three hours behind UTC.
C8_Witness ==
    /\ pc = "formatted"
    /\ fkey = Str(<<"d", "a", "t", "a", "_">> \o horario)
    /\ fvalue = DateValue(TRUE, Instant(14, 14, 30))
    /\ tzOffset = 180
    /\ returned = Str(<<"1", "4", ":", "3", "0">>)

-----------------------------------------------------------------------------
\* Column mapper: getSheetColumnMap and verifyNecessaryColumns.

Array(items) == [t |-> "array", items |-> items]

\* Array.prototype.join
RECURSIVE join(_, _)
join(items, separator) ==
    IF items = <<>> THEN <<>>
    ELSE IF Len(items) = 1 THEN items[1]
    ELSE items[1] \o separator \o join(Tail(items), separator)

\* obj[key], undefined when obj has no such key
getProperty(obj, key) ==
    IF hasOwnProperty(obj, key)
    THEN (CHOOSE e \in {obj[i] : i \in 1..Len(obj)} : e.key = key).value
    ELSE Undefined

\* necessaryColumns.filter(column => !columnMap[column])
RECURSIVE missingColumns(_, _)
missingColumns(columnMap, labels) ==
    IF labels = <<>> THEN <<>>
    ELSE (IF Truthy(getProperty(columnMap, Head(labels).s)) THEN <<>> ELSE <<Head(labels)>>)
            \o missingColumns(columnMap, Tail(labels))

\* the result is the error thrown, or undefined
verifyNecessaryColumns(columnMap, labels) ==
    IF labels.t # "array" THEN Throw("Lista de colunas necessaria invalida fornecida.")
    ELSE LET missing == missingColumns(columnMap, labels.items)
         IN  IF missing # <<>>
             THEN Throw([text |-> "Colunas \"...\" sao necessarias para processar os dados da planilha corretamente.",
                         names |-> join([i \in 1..Len(missing) |-> missing[i].s], <<",", " ">>)])
             ELSE Undefined

\* cell.value && typeof cell.value != 'object'
isMappedHeader(value) == Truthy(value) /\ value.t \notin {"object", "date"}

\* headerRow.eachCell((cell, colNumber) => columnMap[cell.value.toUpperCase()] = colNumber)
RECURSIVE buildColumnMap(_, _, _)
buildColumnMap(columnMap, headerRow, colNumber) ==
    IF colNumber > Len(headerRow) THEN columnMap
    ELSE LET value == headerRow[colNumber]
         IN  buildColumnMap(
                IF isMappedHeader(value)
                THEN setProperty(columnMap, toUpperCase(value.s), Num(colNumber))
                ELSE columnMap,
                headerRow, colNumber + 1)

\* The column map, or the error thrown.  A header cell that holds a number or
\* a boolean has no toUpperCase method: the call at line 182 throws a TypeError.
getSheetColumnMap(headerRow, labels) ==
    IF \E c \in 1..Len(headerRow) : isMappedHeader(headerRow[c]) /\ ~IsString(headerRow[c])
    THEN Throw("TypeError: cell.value.toUpperCase is not a function")
    ELSE LET columnMap == buildColumnMap(<<>>, headerRow, 1)
             error == IF Truthy(labels) THEN verifyNecessaryColumns(columnMap, labels) ELSE Undefined
         IN  IF error = Undefined THEN [t |-> "columnMap", map |-> columnMap] ELSE error

-----------------------------------------------------------------------------
\* Specification of the column mapper: getSheetColumnMap on a header row.

Idade == <<"I", "d", "a", "d", "e">>

MapHeaderValues == {Null, Str(Nome), Str(toUpperCase(Nome)), Str(Idade), Num(7), RichText}

RequiredLabels == {Str(Nome), Str(toUpperCase(Nome)), Str(toUpperCase(Idade))}

RECURSIVE LabelLists(_)
LabelLists(n) ==
    IF n = 0 THEN {<<>>}
    ELSE LET shorter == LabelLists(n - 1)
         IN  shorter \cup {Append(l, x) : l \in {y \in shorter : Len(y) = n - 1}, x \in RequiredLabels}

InitMap ==
    /\ pc = "call"
    /\ returned = None
    /\ headerCells \in [1..MaxCols -> MapHeaderValues]
    /\ hiddenCols = {}
    /\ dataRows = <<>>
    /\ necessaryColumns \in {Array(l) : l \in LabelLists(MaxRequired)} \cup {Undefined}
    /\ OpenIdle
    /\ NormIdle /\ ExtractIdle /\ FormatIdle /\ CreateIdle

callGetSheetColumnMap ==
    /\ pc = "call"
    /\ pc' = "mapped"
    /\ returned' = getSheetColumnMap(headerCells, necessaryColumns)
    /\ UNCHANGED <<normVars, sheetVars, extractVars, mapVars, formatVars, createVars>>

NextMap == callGetSheetColumnMap

SpecMap == InitMap /\ [][NextMap]_vars

\* ---- claims about the column mapper (checked under SpecMap) ----

\* the upper-cased texts of the header row
HeaderTexts ==
    {toUpperCase(headerCells[c].s) : c \in {x \in 1..Len(headerCells) : IsString(headerCells[x])}}

\* the required labels absent from the header row, compared without case
RECURSIVE AbsentLabels(_)
AbsentLabels(labels) ==
    IF labels = <<>> THEN <<>>
    ELSE (IF toUpperCase(Head(labels).s) \in HeaderTexts THEN <<>> ELSE <<Head(labels).s>>)
            \o AbsentLabels(Tail(labels))

\* C6: with a list of required labels, getSheetColumnMap fails if and only if
\* some required label, compared case-insensitively against the header texts,
\* is absent from the header row; the error names exactly the absent labels;
\* when none is absent the map from upper-cased header text to column index is
\* returned.
C6_FailsIffLabelAbsent ==
    (pc = "mapped" /\ necessaryColumns.t = "array") =>
        LET absent == AbsentLabels(necessaryColumns.items)
        IN  IF absent # <<>>
            THEN /\ IsThrow(returned)
                 /\ returned.message.names = join(absent, <<",", " ">>)
            ELSE /\ returned.t = "columnMap"
                 /\ KeysOf(returned.map) = HeaderTexts
                 /\ \A i \in 1..Len(returned.map) :
                       LET c == returned.map[i].value.n
                       IN  /\ c \in 1..Len(headerCells)
                           /\ IsString(headerCells[c])
                           /\ toUpperCase(headerCells[c].s) = returned.map[i].key

-----------------------------------------------------------------------------
\* Extraction: excelToJson over the rows of a worksheet.  Row 1 is the header
\* row; the data rows follow it.

rowCount == 1 + Len(dataRows)

getRow(n) == IF n = 1 THEN headerCells ELSE dataRows[n - 1]

\* formatReplacement: the record with every value formatted, or the error the
\* first failing field throws
RECURSIVE formatReplacementFrom(_, _, _)
formatReplacementFrom(obj, i, offset) ==
    IF i > Len(obj) THEN <<>>
    ELSE LET value == formatData(Str(obj[i].key), obj[i].value, offset)
             rest == formatReplacementFrom(obj, i + 1, offset)
         IN  <<[key |-> obj[i].key, value |-> value]>> \o rest

formatReplacement(obj, offset) ==
    LET formattedObj == formatReplacementFrom(obj, 1, offset)
        failing == {i \in 1..Len(formattedObj) : IsThrow(formattedObj[i].value)}
    IN  IF failing = {} THEN [t |-> "record", fields |-> formattedObj]
        ELSE formattedObj[CHOOSE i \in failing : \A j \in failing : i <= j].value

\* cell values: empty, text, a date that is not valid, a formula with a
\* numeric result
ExtractValues == {Null, Str(<<" ", "x">>), InvalidDate, Obj(TRUE, Num(5))}

InitExtract ==
    /\ pc = "file"
    /\ returned = None
    /\ headerCells \in [1..ExtractCols -> HeaderValues]
    /\ hiddenCols = {}
    /\ \E n \in 1..MaxRows : dataRows \in [1..n -> [1..ExtractCols -> ExtractValues]]
    /\ initRow \in 1..(MaxRows + 1)
    /\ rowNumber = 0
    /\ replacements = <<>>
    /\ formattedReplacements = <<>>
    /\ necessaryColumns = Array(<<>>)
    /\ OpenIdle
    /\ fkey = None /\ fvalue = None
    /\ tzOffset \in {180}
    /\ NormIdle /\ CreateIdle

hideBeforeExtract(startColumn, numColumns) ==
    /\ pc = "file"
    /\ hiddenCols' = hiddenCols \cup {startColumn + i : i \in 0..(numColumns - 1)}
    /\ UNCHANGED <<pc, returned, headerCells, dataRows, normVars, extractVars, mapVars, formatVars, createVars>>

\* excelToJson up to its loop: getExcelData logs the error getSheetColumnMap
\* throws and returns undefined, which line 20 cannot destructure.
excelToJsonStart ==
    /\ pc = "file"
    /\ LET columnMap == getSheetColumnMap(headerCells, necessaryColumns)
       IN  IF IsThrow(columnMap)
           THEN /\ pc' = "done"
                /\ returned' = Throw("TypeError: Cannot destructure property 'worksheet' of undefined")
                /\ logged' = [kind |-> "error", error |-> columnMap]
                /\ UNCHANGED rowNumber
           ELSE /\ pc' = "loop"
                /\ rowNumber' = initRow
                /\ UNCHANGED <<returned, logged>>
    /\ UNCHANGED <<sheetVars, initRow, replacements, formattedReplacements, normVars, mapVars, formatVars, builtVars>>

\* catch (error) { console.log(error) }: the function ends without a return
excelToJsonCatch(accumulated) == Undefined

\* one iteration of the loop of lines 28-39; an error thrown by
\* formatReplacement is caught at line 47, logged, and the call returns undefined
extractRow ==
    /\ pc = "loop"
    /\ rowNumber <= rowCount
    /\ LET data == setObjectReplacements(getRow(rowNumber), headerCells, hiddenCols)
           formattedReplacement == formatReplacement(data, tzOffset)
       IN  /\ replacements' = data
           /\ IF IsThrow(formattedReplacement)
              THEN /\ pc' = "done"
                   /\ returned' = excelToJsonCatch(formattedReplacements)
                   /\ logged' = [kind |-> "error", error |-> formattedReplacement]
                   /\ UNCHANGED <<rowNumber, formattedReplacements>>
              ELSE /\ formattedReplacements' =
                         IF Len(formattedReplacement.fields) > 0
                         THEN Append(formattedReplacements, formattedReplacement.fields)
                         ELSE formattedReplacements
                   /\ rowNumber' = rowNumber + 1
                   /\ UNCHANGED <<pc, returned, logged>>
    /\ UNCHANGED <<sheetVars, initRow, normVars, mapVars, formatVars, builtVars>>

excelToJsonReturn ==
    /\ pc = "loop"
    /\ rowNumber > rowCount
    /\ pc' = "done"
    /\ returned' = Array(formattedReplacements)
    /\ UNCHANGED <<sheetVars, extractVars, normVars, mapVars, formatVars, createVars>>

NextExtract ==
    \/ \E startColumn \in 1..ExtractCols : \E numColumns \in 1..(ExtractCols - startColumn + 1) :
          hideBeforeExtract(startColumn, numColumns)
    \/ excelToJsonStart
    \/ extractRow
    \/ excelToJsonReturn

SpecExtract == InitExtract /\ [][NextExtract]_vars

\* ---- claims about excelToJson (checked under SpecExtract) ----

\* the row yields at least one key
YieldsKey(n) == setObjectReplacements(getRow(n), headerCells, hiddenCols) # <<>>

\* the rows from n to the last one that yield a key, in ascending order
RECURSIVE KeyedRows(_)
KeyedRows(n) ==
    IF n > rowCount THEN <<>>
    ELSE (IF YieldsKey(n) THEN <<n>> ELSE <<>>) \o KeyedRows(n + 1)

\* C3: excelToJson returns exactly one record for each worksheet row in
\* [initRow, rowCount] that yields at least one key, in ascending row order; a
\* row that yields no key produces no record and does not stop the extraction.
C3_OneRecordPerKeyedRow ==
    pc = "done" =>
        LET keyed == KeyedRows(initRow)
        IN  /\ returned.t = "array"
            /\ Len(returned.items) = Len(keyed)
            /\ \A i \in 1..Len(keyed) :
                  [j \in 1..Len(returned.items[i]) |-> returned.items[i][j].key]
                     = LET obj == setObjectReplacements(getRow(keyed[i]), headerCells, hiddenCols)
                       IN  [j \in 1..Len(obj) |-> obj[j].key]

\* a field of the row read last failed to format: the error was logged
FormatFailed ==
    /\ pc = "done"
    /\ rowNumber >= initRow /\ rowNumber <= rowCount
    /\ logged # None
    /\ logged.kind = "error"

\* C28: every field value of every record excelToJson returns is a string,
\* whatever the type of the source cell value.
C28_FieldsAreStrings ==
    (pc = "done" /\ returned.t = "array") =>
        \A i \in 1..Len(returned.items) : \A j \in 1..Len(returned.items[i]) :
            returned.items[i][j].value.t = "string"

\* C21: when formatting a field of a row fails, excelToJson has logged the
\* failure and returns the records accumulated from the rows before it
C21_ReturnsAccumulated ==
    FormatFailed => returned = Array(formattedReplacements)

-----------------------------------------------------------------------------
\* Opening stage of excelToJson: getExcelData (getExcelWorkbook, getWorksheet,
\* getSheetColumnMap, getHeaderRow) and the check of initRow.

\* The messages of the errors of this stage are records, like the message of
\* verifyNecessaryColumns, so that any two of them can be compared.

\* sheetIndex.slice(0, 31)
TruncatedLength == 31

slice(s, end) == SubSeq(s, 1, IF end < Len(s) THEN end ELSE Len(s))

\* ExcelJS workbook.getWorksheet(id): by sheet id for a number, by name for a
\* string; the result is the id of the worksheet found, or undefined
workbookGetWorksheet(names, id) ==
    IF id.t = "number"
    THEN (IF id.n \in 1..Len(names) THEN id ELSE Undefined)
    ELSE IF id.t = "string" /\ \E i \in 1..Len(names) : names[i] = id.s
    THEN Num(CHOOSE i \in 1..Len(names) : names[i] = id.s /\ \A j \in 1..(i - 1) : names[j] # id.s)
    ELSE Undefined

\* the error of line 48, naming the requested sheet
SheetNotFound(id) ==
    Throw([text |-> "A planilha ... nao foi encontrada no workbook.", sheet |-> id])

\* getWorksheet(workbook, sheetIndex) once the default of sheetIndex is applied:
\* a number has no slice method
getWorksheetOf(names, id) ==
    IF workbookGetWorksheet(names, id) # Undefined THEN workbookGetWorksheet(names, id)
    ELSE IF id.t # "string" THEN Throw([text |-> "TypeError: sheetIndex.slice is not a function"])
    ELSE IF workbookGetWorksheet(names, Str(slice(id.s, TruncatedLength))) # Undefined
    THEN workbookGetWorksheet(names, Str(slice(id.s, TruncatedLength)))
    ELSE SheetNotFound(id)

\* getWorksheet(workbook, sheetIndex = 1)
getWorksheet(names, id) == getWorksheetOf(names, IF id = Undefined THEN Num(1) ELSE id)

\* getHeaderRow(worksheet, header = 1): the error it throws, or undefined
getHeaderRowError(header) ==
    IF header # Undefined /\ (header.t # "number" \/ header.n < 1)
    THEN Throw([text |-> "Numero da linha de cabecalho invalido fornecido. Deve ser um numero maior ou igual a 1."])
    ELSE Undefined

\* the body of the try block of getExcelData: the first error thrown, or the
\* data returned
getExcelDataTry(readable, names, id, header, headerRow, labels) ==
    IF ~readable THEN Throw([text |-> "ENOENT: no such file or directory"])
    ELSE IF IsThrow(getWorksheet(names, id)) THEN getWorksheet(names, id)
    ELSE IF IsThrow(getHeaderRowError(header)) THEN getHeaderRowError(header)
    ELSE IF IsThrow(getSheetColumnMap(headerRow, labels)) THEN getSheetColumnMap(headerRow, labels)
    ELSE [t |-> "object", worksheet |-> getWorksheet(names, id),
          columnMap |-> getSheetColumnMap(headerRow, labels)]

InvalidPath == Throw([text |-> "Caminho do arquivo Excel invalido fornecido."])
InvalidInitRow ==
    Throw([text |-> "Numero de linha inicial invalido fornecido. Deve ser um numero maior ou igual a 1."])
CannotDestructure == Throw([text |-> "TypeError: Cannot destructure property 'worksheet' of undefined"])

ShortName == <<"S">>
FullName == [i \in 1..TruncatedLength |-> "a"]
LongName == FullName \o <<"b">>

InitOpen ==
    /\ pc = "call"
    /\ returned = None
    /\ headerCells = <<Str(Nome)>>
    /\ hiddenCols = {}
    /\ dataRows \in {<<<<Str(<<"x">>)>>>>, <<<<InvalidDate>>>>}
    /\ initRow \in {0, 1, 2}
    /\ rowNumber = 0
    /\ replacements = <<>>
    /\ formattedReplacements = <<>>
    /\ necessaryColumns \in {Undefined, Array(<<Str(toUpperCase(Nome))>>), Array(<<Str(Idade)>>)}
    /\ fileExcel \in {Undefined, Str(<<>>), Num(7), Str(<<"f">>)}
    /\ sheetIndex \in {Undefined, Num(1), Num(2), Str(ShortName), Str(<<"T">>), Str(FullName), Str(LongName)}
    /\ headerIndex \in {Undefined, Num(1), Num(0), Str(<<"1">>)}
    /\ sheetNames \in {<<ShortName>>, <<ShortName, FullName>>, <<LongName>>}
    /\ worksheet = None
    /\ ioEvents = <<>>
    /\ fkey = None /\ fvalue = None
    /\ tzOffset \in {180}
    /\ NormIdle /\ CreateIdle

\* excelToJson calls getExcelData: an invalid path is refused before the try
\* block, otherwise getExcelWorkbook starts reading the file
excelToJsonCall ==
    /\ pc = "call"
    /\ IF ~Truthy(fileExcel) \/ ~IsString(fileExcel)
       THEN /\ pc' = "done"
            /\ returned' = InvalidPath
            /\ UNCHANGED ioEvents
       ELSE /\ pc' = "reading"
            /\ ioEvents' = Append(ioEvents, [op |-> "readFile", file |-> fileExcel])
            /\ UNCHANGED returned
    /\ UNCHANGED <<openVars, sheetVars, extractVars, normVars, formatVars, createVars>>

\* lines 20-24 with the outcome of the try block of getExcelData: its error is
\* logged by the catch block, getExcelData returns undefined and line 20 cannot
\* destructure it; otherwise initRow is checked
excelDataGot(data) ==
    IF IsThrow(data)
    THEN /\ pc' = "done"
         /\ returned' = CannotDestructure
         /\ logged' = [kind |-> "error", error |-> data]
         /\ UNCHANGED rowNumber
    ELSE IF initRow < 1
    THEN /\ pc' = "done"
         /\ returned' = InvalidInitRow
         /\ UNCHANGED <<rowNumber, logged>>
    ELSE /\ pc' = "loop"
         /\ rowNumber' = initRow
         /\ UNCHANGED <<returned, logged>>

\* the read settles: the file is readable or not
getExcelDataSettles ==
    /\ pc = "reading"
    /\ \E readable \in BOOLEAN :
          /\ worksheet' = IF readable THEN getWorksheet(sheetNames, sheetIndex) ELSE worksheet
          /\ excelDataGot(getExcelDataTry(readable, sheetNames, sheetIndex, headerIndex,
                                          headerCells, necessaryColumns))
    /\ UNCHANGED <<necessaryColumns, fileExcel, sheetIndex, headerIndex, sheetNames, ioEvents>>
    /\ UNCHANGED <<sheetVars, initRow, replacements, formattedReplacements>>
    /\ UNCHANGED <<normVars, formatVars, builtVars>>

NextOpen ==
    \/ excelToJsonCall
    \/ getExcelDataSettles
    \/ extractRow
    \/ excelToJsonReturn

SpecOpen == InitOpen /\ [][NextOpen]_vars

-----------------------------------------------------------------------------
\* Claims on the opening stage.

InvalidHeaderIndex ==
    headerIndex # Undefined /\ (headerIndex.t # "number" \/ headerIndex.n < 1)

InvalidArgument ==
    \/ initRow < 1
    \/ InvalidHeaderIndex
    \/ fileExcel.t # "string"
    \/ fileExcel.s = <<>>

ArgumentErrors ==
    {InvalidPath, InvalidInitRow,
     Throw([text |-> "Numero da linha de cabecalho invalido fornecido. Deve ser um numero maior ou igual a 1."])}

\* C22: a call of excelToJson with an invalid argument (initRow below 1, a
\* header index that is not a number >= 1, an empty or non-string path) ends
\* with the argument error and no file operation was started before it.
C22_ArgumentErrorBeforeIO ==
    (pc = "done" /\ InvalidArgument) =>
        /\ returned \in ArgumentErrors
        /\ ioEvents = <<>>

\* the worksheets of the workbook that the request designates
SheetsMatching(id) ==
    {i \in 1..Len(sheetNames) :
        \/ id.t = "number" /\ id.n = i
        \/ id.t = "string" /\ sheetNames[i] = id.s}

FirstCharacters(id) ==
    Str([i \in 1..(IF Len(id.s) < TruncatedLength THEN Len(id.s) ELSE TruncatedLength) |-> id.s[i]])

Requested == IF sheetIndex = Undefined THEN Num(1) ELSE sheetIndex

\* C23: getWorksheet returns the worksheet matching the requested index or
\* name; failing that, the worksheet named by the first 31 characters of the
\* requested name; failing both, it throws the sheet-not-found error naming
\* the requested sheet, for a numeric index as for a name.
C23_ResolvesOrSheetNotFound ==
    worksheet # None =>
        IF SheetsMatching(Requested) # {}
        THEN worksheet.t = "number" /\ worksheet.n \in SheetsMatching(Requested)
        ELSE IF Requested.t = "string" /\ SheetsMatching(FirstCharacters(Requested)) # {}
        THEN worksheet.t = "number" /\ worksheet.n \in SheetsMatching(FirstCharacters(Requested))
        ELSE worksheet = SheetNotFound(Requested)

\* getExcelData failed: its catch block logged the error before any row was read
OpenFailed ==
    /\ pc = "done"
    /\ rowNumber = 0
    /\ logged # None
    /\ logged.kind = "error"

\* C29: when opening the workbook, resolving the sheet, validating the header
\* row or checking the required columns fails inside getExcelData, excelToJson
\* rejects with that same error.
C29_RejectsWithSameError ==
    OpenFailed => returned = logged.error

-----------------------------------------------------------------------------
\* Worksheet construction: configureSheet.

\* a column given as a header text, and a column given as an object
StringColumn(header) == [t |-> "string", s |-> header]
ObjectColumn(value, key, validation) ==
    [t |-> "object", value |-> value, key |-> key, validation |-> validation,
     style |-> Undefined, width |-> Undefined]
StyledColumn(value, style, validation) ==
    [ObjectColumn(value, Undefined, validation) EXCEPT !.style = style]
WideColumn(value, width) ==
    [ObjectColumn(value, Undefined, Null) EXCEPT !.width = width]

\* a {select, values} validation and a literal validation rule
Select(values) == [t |-> "object", select |-> TRUE, values |-> Array(values)]
LiteralRule(type) == [t |-> "object", select |-> FALSE, values |-> Undefined, type |-> type]

\* a rich cell object {value, validation} or {value, style}
RichCell(value, validation) ==
    [t |-> "object", value |-> value, validation |-> validation, style |-> Undefined]
StyledCell(value, style) ==
    [t |-> "object", value |-> value, validation |-> Undefined, style |-> style]

\* the configuration bundle {header, global, ajustColumn}
Config(header, global, ajustColumn) ==
    [t |-> "object", header |-> header, global |-> global, ajustColumn |-> ajustColumn]
EmptyConfig == Config(Undefined, Undefined, Undefined)
GlobalStyle(style) == [t |-> "object", style |-> style]

\* config?.global?.style
globalStyleOf(cfg) ==
    IF Truthy(cfg) /\ Truthy(cfg.global) THEN cfg.global.style ELSE Undefined

\* a style property (fill, font, border, alignment) with its sub-properties
Props(p) == [t |-> "object", props |-> p]
StyleObject(fill, font, border, alignment) ==
    [t |-> "object", fill |-> fill, font |-> font, border |-> border, alignment |-> alignment]

Bom == <<"B", "o", "m">>
Ruim == <<"R", "u", "i", "m">>
Neutro == <<"N", "e", "u", "t", "r", "o">>
Centralizado == <<"C", "e", "n", "t", "r", "a", "l", "i", "z", "a", "d", "o">>
PresetNames == {Bom, Ruim, Neutro, Centralizado}

SolidFill(argb) == Props([type |-> "pattern", pattern |-> "solid", fgColor |-> argb])

PRE_CELL_STYLES(name) ==
    CASE name = Bom -> StyleObject(SolidFill("C6EFCE"), Props([color |-> "006100"]), Undefined, Undefined)
      [] name = Ruim -> StyleObject(SolidFill("FFC7CE"), Props([color |-> "9C0006"]), Undefined, Undefined)
      [] name = Neutro -> StyleObject(SolidFill("FFEB9C"), Props([color |-> "9C6500"]), Undefined, Undefined)
      [] name = Centralizado ->
            StyleObject(Undefined, Undefined, Undefined, Props([horizontal |-> "center"]))

\* the style of a cell nothing was applied to
NoStyle == [t |-> "style", fill |-> Undefined, font |-> Undefined, border |-> Undefined, alignment |-> Undefined]

\* a ?? b
Nullish(a, b) == IF a.t \in {"undefined", "null"} THEN b ELSE a

\* cell.fill = style.fill ?? cell.fill, and so on for font, border, alignment
assignStyle(cellStyle, style) ==
    [t |-> "style",
     fill |-> Nullish(style.fill, cellStyle.fill),
     font |-> Nullish(style.font, cellStyle.font),
     border |-> Nullish(style.border, cellStyle.border),
     alignment |-> Nullish(style.alignment, cellStyle.alignment)]

\* the callback of styleArray.forEach; the result is the style of the cell or
\* the error thrown
applyOneStyle(cellStyle, style) ==
    IF cellStyle.t = "throw" THEN cellStyle
    ELSE IF style.t = "string" /\ style.s \in PresetNames
    THEN assignStyle(cellStyle, PRE_CELL_STYLES(style.s))
    ELSE IF style.t = "object" THEN assignStyle(cellStyle, style)
    ELSE IF style.t = "null" THEN Throw("TypeError: Cannot read properties of null (reading 'fill')")
    ELSE Throw("Estilo invalido ou nao encontrado")

RECURSIVE applyStyleArray(_, _)
applyStyleArray(cellStyle, styleArray) ==
    IF styleArray = <<>> THEN cellStyle
    ELSE applyStyleArray(applyOneStyle(cellStyle, Head(styleArray)), Tail(styleArray))

\* Array.isArray(styleType) ? styleType : [styleType]
styleArrayOf(styleType) == IF styleType.t = "array" THEN styleType.items ELSE <<styleType>>

applyCellStyle(cellStyle, styleType) == applyStyleArray(cellStyle, styleArrayOf(styleType))

\* 'value' in matchedValue
HasValueField(v) == v.t = "object" /\ "value" \in DOMAIN v

\* one element of preparedColumns
preparedColumn(column) ==
    IF column.t = "string"
    THEN [header |-> Str(column.s), key |-> formatTextToIdentifier(Str(column.s)),
          validation |-> Undefined, style |-> <<>>, width |-> Undefined]
    ELSE [header |-> column.value,
          key |-> IF Truthy(column.key) THEN column.key ELSE formatTextToIdentifier(column.value),
          validation |-> IF Truthy(column.validation) THEN column.validation ELSE Null,
          style |-> IF column.style.t = "array" THEN column.style.items
                    ELSE IF column.style.t = "string" THEN <<column.style>>
                    ELSE <<>>,
          width |-> column.width]

preparedColumns(cols) == [i \in 1..Len(cols) |-> preparedColumn(cols[i])]

\* rowData[colKey]
matchedValueOf(rowData, colKey) ==
    IF IsString(colKey) THEN getProperty(rowData, colKey.s) ELSE Undefined

\* val.values.join('|')
chaveOf(values) == join([i \in 1..Len(values) |-> values[i].s], <<"|">>)

\* the number of the last row taken as the first free row
hiddenRowCountLess(hidden) == IF hidden = <<>> THEN 0 ELSE Len(hidden) - 1

\* worksheet.rowCount of the hidden worksheet
hiddenRowCount(hidden) == Len(hidden)

\* val.values.forEach((v, i) => abaOculta.getCell(`A${linhaInicio + i}`).value = v)
writeValues(hidden, linhaInicio, values) ==
    [r \in 1..(IF linhaInicio + Len(values) - 1 > Len(hidden)
               THEN linhaInicio + Len(values) - 1 ELSE Len(hidden)) |->
        IF r >= linhaInicio /\ r < linhaInicio + Len(values)
        THEN values[r - linhaInicio + 1] ELSE hidden[r]]

listRule(linhaInicio, linhaFim) ==
    [t |-> "object", type |-> "list",
     formulae |-> <<"=HiddenSelect!$A$", linhaInicio, ":$A$", linhaFim>>,
     allowBlank |-> TRUE,
     showErrorMessage |-> TRUE,
     errorTitle |-> "Entrada invalida",
     error |-> "Escolha um valor da lista suspensa."]

\* cell.value = valorFinal || null
cellValue(valorFinal) == IF Truthy(valorFinal) THEN valorFinal ELSE Null

\* lines 273-293: the global style, then the column style with the style of
\* the rich cell on top of it
cellStyleOf(matchedValue, rich, columnStyle, globalStyle) ==
    IF rich /\ Truthy(matchedValue.style)
    THEN applyCellStyle(
            IF Truthy(globalStyle) THEN applyCellStyle(NoStyle, globalStyle) ELSE NoStyle,
            Array(columnStyle \o styleArrayOf(matchedValue.style)))
    ELSE applyStyleArray(
            IF Truthy(globalStyle) THEN applyCellStyle(NoStyle, globalStyle) ELSE NoStyle,
            columnStyle)

\* the column's validation is consulted as if the cell never had its own
useColumnValidationAlways(ownValidation, val) == Truthy(val)

\* !cellValidation && columnConfig.validation
useColumnValidation(ownValidation, val) == ~Truthy(ownValidation) /\ Truthy(val)

\* a cell nothing was written to
EmptyCell == [value |-> Null, dataValidation |-> None, style |-> NoStyle]

\* the body of columnKeys.forEach for one cell: the cell written and the hidden
\* worksheet and the dedup map after it, or the error applyCellStyle raised
writeCell(rowData, columnConfig, hidden, mapped) ==
    LET matchedValue == matchedValueOf(rowData, columnConfig.key)
        rich == Truthy(matchedValue) /\ HasValueField(matchedValue)
        valorFinal == IF rich THEN matchedValue.value ELSE matchedValue
        ownValidation == IF rich THEN matchedValue.validation ELSE Null
        val == columnConfig.validation
        useColumn == useColumnValidation(ownValidation, val)
        select == useColumn /\ val.select /\ val.values.t = "array"
        values == IF select THEN val.values.items ELSE <<>>
        chave == chaveOf(values)
        known == select /\ hasOwnProperty(mapped, chave)
        linhaInicio == IF known THEN getProperty(mapped, chave) ELSE hiddenRowCount(hidden) + 1
        linhaFim == linhaInicio + Len(values) - 1
        cellValidation ==
            IF select THEN listRule(linhaInicio, linhaFim)
            ELSE IF useColumn THEN val
            ELSE ownValidation
        style == cellStyleOf(matchedValue, rich, columnConfig.style, globalStyleOf(config))
    IN  IF style.t = "throw"
        THEN [cell |-> EmptyCell, hidden |-> hidden, mapped |-> mapped, error |-> style]
        ELSE [cell |-> [value |-> cellValue(valorFinal),
                        dataValidation |-> IF Truthy(cellValidation) THEN cellValidation ELSE None,
                        style |-> style],
              hidden |-> IF select /\ ~known THEN writeValues(hidden, linhaInicio, values) ELSE hidden,
              mapped |-> IF select /\ ~known THEN setProperty(mapped, chave, linhaInicio) ELSE mapped,
              error |-> Undefined]

\* the cells written: one cell followed by the cells after it
consCells(cell, rest) ==
    [cells |-> <<cell>> \o rest.cells, hidden |-> rest.hidden, mapped |-> rest.mapped,
     error |-> rest.error]

\* columnKeys.forEach from position index on; an error ends it
RECURSIVE writeRow(_, _, _, _, _)
RECURSIVE writeRowAfter(_, _, _, _)
writeRow(rowData, prepared, index, hidden, mapped) ==
    IF index > Len(prepared)
    THEN [cells |-> <<>>, hidden |-> hidden, mapped |-> mapped, error |-> Undefined]
    ELSE writeRowAfter(rowData, prepared, index, writeCell(rowData, prepared[index], hidden, mapped))

writeRowAfter(rowData, prepared, index, first) ==
    IF first.error.t = "throw"
    THEN [cells |-> <<>>, hidden |-> first.hidden, mapped |-> first.mapped, error |-> first.error]
    ELSE consCells(first.cell, writeRow(rowData, prepared, index + 1, first.hidden, first.mapped))

\* setHeaderRow accepts a string or an object with a truthy value field
validColumn(column) == column.t = "string" \/ Truthy(column.value)

\* the error configureSheet raises before it writes anything, or undefined
configureSheetError(cols) ==
    IF cols.t # "array"
    THEN Throw("TypeError: Cannot read properties of undefined (reading 'map')")
    ELSE IF \E i \in 1..Len(cols.items) : ~validColumn(cols.items[i])
    THEN Throw("Cada coluna deve ser uma string ou um objeto com o campo \"value\".")
    ELSE Undefined

\* the header configuration {fixed, row, headerRow, filter}
HeaderConfig(fixed, row, headerRow, filter) ==
    [t |-> "object", fixed |-> fixed, row |-> row, headerRow |-> headerRow, filter |-> filter]
EmptyHeader == HeaderConfig(Undefined, Undefined, Undefined, Undefined)

\* config?.header || {}
headerConfigOf(cfg) == IF Truthy(cfg) /\ Truthy(cfg.header) THEN cfg.header ELSE EmptyHeader

\* value == true
LooseEqualsTrue(value) == value = Bool(TRUE) \/ value = Num(1)

\* enableColumnFilters(worksheet, columns, row = 1): the autofilter region, or
\* none when there is no column
enableColumnFilters(totalColumns, row) ==
    IF totalColumns > 0
    THEN [from |-> [row |-> IF row = Undefined THEN Num(1) ELSE row, column |-> 1],
          to |-> [row |-> IF row = Undefined THEN Num(1) ELSE row, column |-> totalColumns]]
    ELSE None

\* config.headerRow || 1: the row whose cells setHeaderRow styles as the header
headerRowOf(headerConfig) ==
    IF Truthy(headerConfig.headerRow) THEN headerConfig.headerRow ELSE Num(1)

\* setHeaderRow: the column widths, the frozen pane and the autofilter it leaves
setHeaderRow(cols, headerConfig) ==
    [widths |-> [i \in 1..Len(cols) |->
                    IF cols[i].t = "string" THEN Undefined
                    ELSE IF Truthy(cols[i].width) THEN cols[i].width ELSE Null],
     views |-> IF Truthy(headerConfig.fixed)
               THEN [state |-> "frozen",
                     ySplit |-> IF Truthy(headerConfig.row) THEN headerConfig.row ELSE Num(1)]
               ELSE None,
     autoFilter |-> IF headerConfig.filter = Undefined \/ LooseEqualsTrue(headerConfig.filter)
                    THEN enableColumnFilters(Len(cols), headerConfig.row)
                    ELSE None]

\* column.header of the worksheet column
headerOf(column) == IF column.t = "string" THEN Str(column.s) ELSE column.value

\* value.toString().length
textLength(value) == Len(String(value).s)

\* column.header ? column.header.length : 10 (a number has no length)
headerLength(header) ==
    IF ~Truthy(header) THEN Num(10)
    ELSE IF IsString(header) THEN Num(Len(header.s))
    ELSE Undefined

\* Not a Number
NaN == [t |-> "NaN"]

\* column.eachCell: the longest text so far; nothing is greater than undefined
RECURSIVE maxLengthOver(_, _)
maxLengthOver(values, maxLength) ==
    IF values = <<>> THEN maxLength
    ELSE maxLengthOver(Tail(values),
            IF Truthy(Head(values)) /\ maxLength.t = "number" /\ textLength(Head(values)) > maxLength.n
            THEN Num(textLength(Head(values)))
            ELSE maxLength)

\* maxLength + 5
plusMargin(maxLength) == IF maxLength.t = "number" THEN Num(maxLength.n + 5) ELSE NaN

\* the cells of worksheet column i: the header cell, then the data cells
columnCells(cols, cells, i) ==
    <<headerOf(cols[i])>> \o [r \in 1..Len(cells) |-> cells[r][i].value]

\* adjustColumnWidths with a header-less column starting from length 0
adjustColumnWidthsNoDefault(current, cols, cells) ==
    [i \in 1..Len(cols) |->
        IF cols[i].t = "object" /\ Truthy(cols[i].width) THEN current[i]
        ELSE plusMargin(maxLengthOver(columnCells(cols, cells, i),
                                      IF ~Truthy(headerOf(cols[i])) THEN Num(0)
                                      ELSE headerLength(headerOf(cols[i]))))]

\* adjustColumnWidths: the widths of the worksheet columns after it
adjustColumnWidths(current, cols, cells) ==
    [i \in 1..Len(cols) |->
        IF cols[i].t = "object" /\ Truthy(cols[i].width) THEN current[i]
        ELSE plusMargin(maxLengthOver(columnCells(cols, cells, i), headerLength(headerOf(cols[i]))))]

\* value lists of the select validations
Ativo == Str(<<"A">>)
Inativo == Str(<<"I">>)
Piped == Str(<<"A", "|", "A">>)
ValueLists == {<<Ativo, Inativo>>, <<Inativo, Ativo>>, <<Piped, Ativo>>, <<Ativo, Piped>>}

ColumnSpecs ==
    {StringColumn(Nome), ObjectColumn(Str(Nome), Str(<<"n">>), Null),
     ObjectColumn(Str(<<"N">>), Undefined, LiteralRule("whole"))}
      \cup {ObjectColumn(Str(<<"N">>), Undefined, Select(values)) : values \in ValueLists}

RecordKeys == {nome, <<"n">>}
RecordValues == {Num(0), Str(<<"x">>), RichCell(Num(0), Undefined), RichCell(Str(<<"x">>), LiteralRule("custom"))}

RECURSIVE SeqsUpTo(_, _)
SeqsUpTo(S, n) ==
    IF n = 0 THEN {<<>>}
    ELSE LET shorter == SeqsUpTo(S, n - 1)
         IN  shorter \cup {Append(q, x) : q \in {y \in shorter : Len(y) = n - 1}, x \in S}

\* records: every order of the fields
Records ==
    {r \in SeqsUpTo([key : RecordKeys, value : RecordValues], Cardinality(RecordKeys)) :
        \A i, j \in 1..Len(r) : r[i].key = r[j].key => i = j}

\* The workbook may already hold a HiddenSelect worksheet filled by the sheet
\* configured before this one.
InitCreate ==
    /\ pc = "call"
    /\ returned = None
    /\ columns \in SeqsUpTo(ColumnSpecs, MaxColumns) \ {<<>>}
    /\ rows \in SeqsUpTo(Records, MaxRecords) \ {<<>>}
    /\ rowIndex = 0
    /\ sheetRows = <<>>
    /\ abaOculta \in {<<>>, <<Inativo>>}
    /\ listaMapeada = <<>>
    /\ config = EmptyConfig
    /\ autoFilter = None
    /\ widths = <<>>
    /\ views = None
    /\ BookIdle /\ CsvIdle
    /\ NormIdle /\ SheetIdle /\ ExtractIdle /\ MapIdle /\ FormatIdle

\* lines 234-258: the columns are prepared, the hidden worksheet is fetched or
\* added, and the dedup map starts empty
configureSheet ==
    /\ pc = "call"
    /\ IF IsThrow(configureSheetError(Array(columns)))
       THEN /\ pc' = "done"
            /\ returned' = configureSheetError(Array(columns))
            /\ UNCHANGED <<listaMapeada, rowIndex, widths, views, autoFilter>>
       ELSE /\ pc' = "rows"
            /\ listaMapeada' = <<>>
            /\ rowIndex' = 0
            /\ widths' = setHeaderRow(columns, headerConfigOf(config)).widths
            /\ views' = setHeaderRow(columns, headerConfigOf(config)).views
            /\ autoFilter' = setHeaderRow(columns, headerConfigOf(config)).autoFilter
            /\ UNCHANGED returned
    /\ UNCHANGED <<columns, rows, sheetRows, abaOculta, config, bookVars, csvVars>>
    /\ UNCHANGED <<normVars, sheetVars, extractVars, mapVars, formatVars>>

\* the worksheet after a row, or the error that ends configureSheet
rowWritten(written) ==
    IF written.error.t = "throw"
    THEN /\ pc' = "done"
         /\ returned' = written.error
         /\ UNCHANGED <<rowIndex, sheetRows, abaOculta, listaMapeada>>
    ELSE /\ sheetRows' = Append(sheetRows, written.cells)
         /\ abaOculta' = written.hidden
         /\ listaMapeada' = written.mapped
         /\ rowIndex' = rowIndex + 1
         /\ UNCHANGED <<pc, returned>>

\* one step of rows.forEach (lines 261-340)
rowsForEach ==
    /\ pc = "rows"
    /\ rowIndex < Len(rows)
    /\ rowWritten(writeRow(rows[rowIndex + 1], preparedColumns(columns), 1, abaOculta, listaMapeada))
    /\ UNCHANGED <<columns, rows, layoutVars, bookVars, csvVars>>
    /\ UNCHANGED <<normVars, sheetVars, extractVars, mapVars, formatVars>>

\* lines 343-355: the widths are adjusted unless the configuration says not to
configureSheetReturn ==
    /\ pc = "rows"
    /\ rowIndex = Len(rows)
    /\ pc' = "done"
    /\ returned' = Undefined
    /\ widths' = IF ~Truthy(config) \/ config.ajustColumn # Bool(FALSE)
                  THEN adjustColumnWidths(widths, columns, sheetRows)
                  ELSE widths
    /\ UNCHANGED <<columns, rows, rowIndex, sheetRows, abaOculta, listaMapeada>>
    /\ UNCHANGED <<config, autoFilter, views, bookVars, csvVars>>
    /\ UNCHANGED <<normVars, sheetVars, extractVars, mapVars, formatVars>>

NextCreate ==
    \/ configureSheet
    \/ rowsForEach
    \/ configureSheetReturn

SpecCreate == InitCreate /\ [][NextCreate]_vars

\* ---- claims about configureSheet (checked under SpecCreate) ----

\* the value the record supplies under the key: for a rich cell its value field
SuppliedValue(rowData, colKey) ==
    LET v == matchedValueOf(rowData, colKey)
    IN  IF HasValueField(v) THEN v.value ELSE v

\* C9: the cell written at position i of a row holds the record's value under
\* column i's key (for a rich cell object its value field), and is null
\* exactly when the record supplies no value under that key.
C9_CellHoldsRecordValue ==
    \A r \in 1..Len(sheetRows) : \A i \in 1..Len(columns) :
        LET supplied == SuppliedValue(rows[r], preparedColumns(columns)[i].key)
            cell == sheetRows[r][i]
        IN  /\ supplied.t \notin {"undefined", "null"} => cell.value = supplied
            /\ cell.value = Null <=> supplied.t \in {"undefined", "null"}

\* the columns whose select validation reached the cells of row r
SelectColumns(r) ==
    {i \in 1..Len(columns) :
        /\ columns[i].t = "object"
        /\ Truthy(columns[i].validation)
        /\ columns[i].validation.select
        /\ sheetRows[r][i].dataValidation # None
        /\ sheetRows[r][i].dataValidation.type = "list"}

ValuesOf(i) == columns[i].validation.values.items

\* q holds the values of p in another order
Reordered(p, q) ==
    /\ p # q
    /\ Len(p) = Len(q)
    /\ \E f \in [1..Len(p) -> 1..Len(p)] :
          /\ \A a, b \in 1..Len(p) : f[a] = f[b] => a = b
          /\ \A a \in 1..Len(p) : q[a] = p[f[a]]

\* rows of the hidden worksheet written by this call
HiddenRowsWritten ==
    IF listaMapeada = <<>> THEN 0 ELSE Len(abaOculta) - (listaMapeada[1].value - 1)

RECURSIVE SumOfLengths(_)
SumOfLengths(lists) ==
    IF lists = {} THEN 0
    ELSE LET l == CHOOSE x \in lists : TRUE
         IN  Len(l) + SumOfLengths(lists \ {l})

\* C10: within one configured sheet two columns declaring the identical ordered
\* value list get the identical range formula and the list is written to the
\* hidden sheet once; a column declaring the values in another order gets a
\* distinct range.
C10_SameListSameRange ==
    \A r \in 1..Len(sheetRows) :
        /\ \A i, j \in SelectColumns(r) :
              /\ ValuesOf(i) = ValuesOf(j)
                    => sheetRows[r][i].dataValidation.formulae = sheetRows[r][j].dataValidation.formulae
              /\ Reordered(ValuesOf(i), ValuesOf(j))
                    => sheetRows[r][i].dataValidation.formulae # sheetRows[r][j].dataValidation.formulae
        /\ HiddenRowsWritten <=
              SumOfLengths({ValuesOf(i) : i \in UNION {SelectColumns(q) : q \in 1..Len(sheetRows)}})

-----------------------------------------------------------------------------
\* Workbook construction: createExcelXlsx, in single-sheet and multi-sheet mode.

\* the rows written: one row followed by the rows after it
consRows(cells, rest) ==
    [rows |-> <<cells>> \o rest.rows, hidden |-> rest.hidden, mapped |-> rest.mapped,
     error |-> rest.error]

\* rows.forEach from row r on
RECURSIVE writeRows(_, _, _, _, _)
RECURSIVE writeRowsAfter(_, _, _, _)
writeRows(rws, prepared, r, hidden, mapped) ==
    IF r > Len(rws) THEN [rows |-> <<>>, hidden |-> hidden, mapped |-> mapped, error |-> Undefined]
    ELSE writeRowsAfter(rws, prepared, r, writeRow(rws[r], prepared, 1, hidden, mapped))

writeRowsAfter(rws, prepared, r, first) ==
    IF first.error.t = "throw"
    THEN [rows |-> <<>>, hidden |-> first.hidden, mapped |-> first.mapped, error |-> first.error]
    ELSE consRows(first.cells, writeRows(rws, prepared, r + 1, first.hidden, first.mapped))

\* one whole configureSheet call on a workbook whose hidden worksheet holds
\* hidden: the dedup map is new (line 258), the hidden worksheet is not
configuredSheet(cols, rws, hidden) == writeRows(rws, preparedColumns(cols), 1, hidden, <<>>)

\* a catch block that raises the error again
createExcelXlsxRethrow(error) == error

\* catch (error) { console.error(...) }: the call resolves with undefined
createExcelXlsxCatch(error) == Undefined

SheetName(i) == Str(<<"S">> \o numberToString(i))

BookColumns ==
    {Array(<<StringColumn(Nome)>>),
     Array(<<ObjectColumn(Str(<<"N">>), Undefined, Select(<<Ativo, Inativo>>))>>),
     Array(<<ObjectColumn(Str(<<"N">>), Undefined, Select(<<Inativo, Ativo>>))>>),
     Array(<<ObjectColumn(Str(<<"N">>), Undefined, Select(<<Ativo, Inativo>>)),
             ObjectColumn(Str(Nome), Undefined, Select(<<Ativo, Inativo>>))>>),
     Array(<<ObjectColumn(Undefined, Undefined, Null)>>),
     Undefined}

BookRows == {<<>>, <<<<>>>>, <<<<[key |-> <<"n">>, value |-> Str(<<"x">>)]>>>>}

\* sheet configurations of the multi-sheet mode, named by position
SheetConfigLists ==
    UNION {[1..n -> [columns : BookColumns, rows : BookRows]] : n \in 0..MaxSheets}

InitBook ==
    /\ pc = "call"
    /\ returned = None
    /\ \/ /\ sheetConfigs \in {Array(l) : l \in SheetConfigLists}
          /\ columns = <<>>
          /\ rows = <<>>
       \/ /\ sheetConfigs \in {SheetName(1), Str(<<>>), Undefined}
          /\ columns \in BookColumns
          /\ rows \in BookRows
    /\ sheetNumber = 0
    /\ worksheets = <<>>
    /\ logged = None
    /\ rowIndex = 0
    /\ sheetRows = <<>>
    /\ abaOculta = <<>>
    /\ listaMapeada = <<>>
    /\ config = EmptyConfig
    /\ autoFilter = None
    /\ widths = <<>>
    /\ views = None
    /\ CsvIdle
    /\ NormIdle /\ SheetIdle /\ ExtractIdle /\ MapIdle /\ FormatIdle

\* the worksheet as the workbook holds it, or the error configureSheet raised
Worksheet(name, cols, sheet) ==
    IF sheet.error.t = "throw" THEN sheet.error
    ELSE [t |-> "worksheet", name |-> name, columns |-> cols,
          cells |-> sheet.rows, hidden |-> sheet.hidden]

\* the worksheet added to the workbook and configured, or the error raised
addConfiguredSheet(name, cols, rws) ==
    IF IsThrow(configureSheetError(cols)) THEN configureSheetError(cols)
    ELSE Worksheet(name, cols.items, configuredSheet(cols.items, rws, abaOculta))

\* a variant that goes on to save the workbook after the error
sheetAddedThenSave(sheet, nextPc) ==
    IF IsThrow(sheet)
    THEN /\ pc' = "save"
         /\ returned' = createExcelXlsxCatch(sheet)
         /\ logged' = [kind |-> "error", error |-> sheet]
         /\ UNCHANGED <<worksheets, abaOculta, sheetNumber>>
    ELSE /\ pc' = nextPc
         /\ worksheets' = Append(worksheets, sheet)
         /\ abaOculta' = sheet.hidden
         /\ sheetNumber' = sheetNumber + 1
         /\ UNCHANGED <<returned, logged>>

\* the catch block of lines 218-220 after an error, or the workbook with the
\* worksheet added
sheetAdded(sheet, nextPc) ==
    IF IsThrow(sheet)
    THEN /\ pc' = "done"
         /\ returned' = createExcelXlsxCatch(sheet)
         /\ logged' = [kind |-> "error", error |-> sheet]
         /\ UNCHANGED <<worksheets, abaOculta, sheetNumber>>
    ELSE /\ pc' = nextPc
         /\ worksheets' = Append(worksheets, sheet)
         /\ abaOculta' = sheet.hidden
         /\ sheetNumber' = sheetNumber + 1
         /\ UNCHANGED <<returned, logged>>

\* lines 180-198 up to the sheets: in single-sheet mode the one worksheet is
\* set up and configured here
createExcelXlsx ==
    /\ pc = "call"
    /\ IF sheetConfigs.t = "array"
       THEN /\ pc' = IF sheetConfigs.items = <<>> THEN "save" ELSE "sheets"
            /\ UNCHANGED <<returned, worksheets, abaOculta, logged, sheetNumber>>
       ELSE sheetAdded(IF ~Truthy(sheetConfigs)
                       THEN Throw("Necessario informar o nome da planilha.")
                       ELSE addConfiguredSheet(sheetConfigs, columns, rows),
                       "save")
    /\ UNCHANGED <<columns, rows, rowIndex, sheetRows, listaMapeada, sheetConfigs>>
    /\ UNCHANGED <<layoutVars, csvVars, normVars, sheetVars, extractVars, mapVars, formatVars>>

\* one step of sheetConfigs.forEach (lines 190-193)
sheetConfigsForEach ==
    /\ pc = "sheets"
    /\ sheetNumber < Len(sheetConfigs.items)
    /\ sheetAdded(addConfiguredSheet(SheetName(sheetNumber + 1),
                                     sheetConfigs.items[sheetNumber + 1].columns,
                                     sheetConfigs.items[sheetNumber + 1].rows),
                  IF sheetNumber + 1 = Len(sheetConfigs.items) THEN "save" ELSE "sheets")
    /\ UNCHANGED <<columns, rows, rowIndex, sheetRows, listaMapeada, sheetConfigs>>
    /\ UNCHANGED <<layoutVars, csvVars, normVars, sheetVars, extractVars, mapVars, formatVars>>

\* await saveXlsxFile(workbook, directory): the write of the workbook as it is
\* now starts, and succeeds or fails; the failure is wrapped (lines 150-155)
\* and caught at line 218
saveXlsxFile ==
    /\ pc = "save"
    /\ pc' = "done"
    /\ ioEvents' = Append(ioEvents, [op |-> "writeFile", worksheets |-> worksheets])
    /\ \E writeFails \in BOOLEAN :
          IF writeFails
          THEN LET error == Throw("Nao foi possivel salvar a planilha no diretorio informado")
               IN  /\ returned' = createExcelXlsxCatch(error)
                   /\ logged' = [kind |-> "error", error |-> error]
          ELSE /\ returned' = Undefined
               /\ logged' = [kind |-> "created"]
    /\ UNCHANGED <<columns, rows, rowIndex, sheetRows, abaOculta, listaMapeada>>
    /\ UNCHANGED <<sheetConfigs, sheetNumber, worksheets>>
    /\ UNCHANGED <<layoutVars, csvVars, normVars, sheetVars, extractVars, openVars, formatVars>>

NextBook ==
    \/ createExcelXlsx
    \/ sheetConfigsForEach
    \/ saveXlsxFile

SpecBook == InitBook /\ [][NextBook]_vars

\* ---- claims about createExcelXlsx (checked under SpecBook) ----

\* the list rules written to the cells of all worksheets, each with the value
\* list its column declares
BookRules ==
    {[values |-> worksheets[s].columns[i].validation.values.items,
      formulae |-> worksheets[s].cells[r][i].dataValidation.formulae] :
        <<s, r, i>> \in
          {x \in (1..Len(worksheets)) \X (1..MaxRecords + 1) \X (1..MaxColumns + 1) :
              /\ x[2] <= Len(worksheets[x[1]].cells)
              /\ x[3] <= Len(worksheets[x[1]].columns)
              /\ worksheets[x[1]].cells[x[2]][x[3]].dataValidation # None
              /\ worksheets[x[1]].cells[x[2]][x[3]].dataValidation.type = "list"}}

\* C11: within one createExcelXlsx call, multi-sheet mode included, each
\* distinct ordered value list is written to the hidden worksheet at most once
\* and every column of every sheet declaring it references the same range.
C11_ListAllocatedOncePerCall ==
    /\ \A a, b \in BookRules : a.values = b.values => a.formulae = b.formulae
    /\ Len(abaOculta) <= SumOfLengths({a.values : a \in BookRules})

\* the number of sheets the call was asked to build
RequestedSheets == IF sheetConfigs.t = "array" THEN Len(sheetConfigs.items) ELSE 1

\* C24: in every execution of createExcelXlsx the workbook is saved at most
\* once, the workbook saved holds every requested sheet, each completely
\* configured, and when configuring a sheet raised no save is attempted.
C24_SavedOnceWhenComplete ==
    /\ Len(ioEvents) <= 1
    /\ \A e \in 1..Len(ioEvents) :
          /\ ioEvents[e].op = "writeFile"
          /\ Len(ioEvents[e].worksheets) = RequestedSheets
          /\ \A i \in 1..RequestedSheets : ioEvents[e].worksheets[i].t = "worksheet"
          /\ sheetNumber = RequestedSheets
    /\ (pc = "done" /\ sheetNumber < RequestedSheets) =>
          /\ ioEvents = <<>>
          /\ logged.kind = "error"

\* C24 witness: a call asked for two sheets, both were configured and the
\* workbook holding them was saved
C24_Witness ==
    /\ pc = "done"
    /\ RequestedSheets = 2
    /\ Len(ioEvents) = 1
    /\ Len(ioEvents[1].worksheets) = 2

\* C20: createExcelXlsx never rejects: whether the construction succeeded, the
\* sheet set-up or configuration raised, or the save failed, the call has
\* resolved with undefined once it is over
C20_NeverRejects == pc = "done" => returned = Undefined

\* C20 witness: the sheets were configured, the save failed, the error was
\* logged and the call resolved
C20_Witness ==
    /\ pc = "done"
    /\ worksheets # <<>>
    /\ logged = [kind |-> "error",
                 error |-> Throw("Nao foi possivel salvar a planilha no diretorio informado")]
    /\ returned = Undefined

-----------------------------------------------------------------------------
\* Specification of the cell writer: configureSheet on a one-column sheet whose
\* column, rows and configuration declare styles and validations.

BoldFont == StyleObject(Undefined, Props([bold |-> TRUE]), Undefined, Undefined)
SizedFont == StyleObject(Undefined, Props([size |-> 12, name |-> "Arial"]), Undefined, Undefined)

GlobalStyles == {SizedFont, Str(Neutro)}

\* the last one is not a preset
ColumnStyles == {Undefined, Str(Bom), Array(<<Str(Centralizado), BoldFont>>), Str(<<"X">>)}

CellColumns ==
    {StringColumn(Nome)} \cup
    {StyledColumn(Str(Nome), style, validation) :
        style \in ColumnStyles,
        validation \in {Null, Select(<<Ativo, Inativo>>), LiteralRule("whole")}}

CellInputs ==
    {Str(<<"x">>), RichCell(Str(<<"x">>), Undefined), RichCell(Str(<<"x">>), LiteralRule("custom")),
     StyledCell(Str(<<"x">>), Str(Ruim)), StyledCell(Str(<<"x">>), BoldFont),
     StyledCell(Str(<<"x">>), Array(<<BoldFont, Str(Centralizado)>>))}

CellRecords == {<<>>} \cup {<<[key |-> nome, value |-> v]>> : v \in CellInputs}

InitCell ==
    /\ pc = "call"
    /\ returned = None
    /\ columns \in {<<c>> : c \in CellColumns}
    /\ rows \in SeqsUpTo(CellRecords, MaxCellRows) \ {<<>>}
    /\ rowIndex = 0
    /\ sheetRows = <<>>
    /\ abaOculta = <<>>
    /\ listaMapeada = <<>>
    /\ config \in {Config(Undefined, g, Undefined) :
                      g \in {Undefined} \cup {GlobalStyle(st) : st \in GlobalStyles}}
    /\ autoFilter = None
    /\ widths = <<>>
    /\ views = None
    /\ BookIdle /\ CsvIdle
    /\ NormIdle /\ SheetIdle /\ ExtractIdle /\ MapIdle /\ FormatIdle

SpecCell == InitCell /\ [][NextCreate]_vars

\* ---- claims about the cells configureSheet writes (checked under SpecCell) ----

\* the validation rule the record's value carries for itself
OwnValidation(v) == IF Truthy(v) /\ HasValueField(v) THEN v.validation ELSE Undefined

DeclaresSelect(col) ==
    /\ col.t = "object"
    /\ Truthy(col.validation)
    /\ col.validation.select
    /\ col.validation.values.t = "array"

\* the list rule over the range the allocator recorded for the values
AllocatedRule(values) ==
    LET start == getProperty(listaMapeada, chaveOf(values))
    IN  [t |-> "object", type |-> "list",
         formulae |-> <<"=HiddenSelect!$A$", start, ":$A$", start + Len(values) - 1>>,
         allowBlank |-> TRUE, showErrorMessage |-> TRUE,
         errorTitle |-> "Entrada invalida", error |-> "Escolha um valor da lista suspensa."]

\* C12: the validation of every data cell is the rich cell's own rule if it
\* supplies one; otherwise, for a column declaring {select, values}, a list rule
\* over the allocator's range with allowBlank and the fixed error texts;
\* otherwise the column's literal rule verbatim; otherwise none.  This holds
\* for every data row, also when the row has no value for the column.
C12_ValidationPrecedence ==
    \A r \in 1..Len(sheetRows) : \A i \in 1..Len(columns) :
        LET own == OwnValidation(matchedValueOf(rows[r], preparedColumns(columns)[i].key))
            rule == sheetRows[r][i].dataValidation
        IN  IF Truthy(own) THEN rule = own
            ELSE IF DeclaresSelect(columns[i])
            THEN rule = AllocatedRule(columns[i].validation.values.items)
            ELSE IF columns[i].t = "object" /\ Truthy(columns[i].validation)
            THEN rule = columns[i].validation
            ELSE rule = None

\* C12 witness: in a column declaring a select list, a rich cell kept its own
\* rule and the next row, which has no value, got the list rule.
C12_Witness ==
    /\ pc = "done"
    /\ Len(sheetRows) = 2
    /\ DeclaresSelect(columns[1])
    /\ rows[2] = <<>>
    /\ sheetRows[1][1].dataValidation = LiteralRule("custom")
    /\ sheetRows[2][1].dataValidation = AllocatedRule(<<Ativo, Inativo>>)

\* the later layer's sub-properties over the earlier layer's
MergeProps(a, b) ==
    IF b.t \in {"undefined", "null"} THEN a
    ELSE IF a.t \in {"undefined", "null"} THEN b
    ELSE Props([k \in DOMAIN a.props \cup DOMAIN b.props |->
                    IF k \in DOMAIN b.props THEN b.props[k] ELSE a.props[k]])

StyleOfToken(token) == IF token.t = "string" THEN PRE_CELL_STYLES(token.s) ELSE token

MergeLayer(cellStyle, layer) ==
    [t |-> "style",
     fill |-> MergeProps(cellStyle.fill, layer.fill),
     font |-> MergeProps(cellStyle.font, layer.font),
     border |-> MergeProps(cellStyle.border, layer.border),
     alignment |-> MergeProps(cellStyle.alignment, layer.alignment)]

RECURSIVE Layered(_, _)
Layered(cellStyle, tokens) ==
    IF tokens = <<>> THEN cellStyle
    ELSE Layered(MergeLayer(cellStyle, StyleOfToken(Head(tokens))), Tail(tokens))

GlobalTokens == IF Truthy(globalStyleOf(config)) THEN styleArrayOf(globalStyleOf(config)) ELSE <<>>

CellTokens(v) ==
    IF Truthy(v) /\ HasValueField(v) /\ Truthy(v.style) THEN styleArrayOf(v.style) ELSE <<>>

\* C13: the final style of every data cell is the global style, then the column
\* style, then the cell style: a later layer overrides an earlier one only for
\* the properties and sub-properties it defines, and what an earlier layer set
\* and no later layer sets remains.
C13_StyleLayering ==
    \A r \in 1..Len(sheetRows) : \A i \in 1..Len(columns) :
        sheetRows[r][i].style =
            Layered(Layered(Layered(NoStyle, GlobalTokens), preparedColumns(columns)[i].style),
                    CellTokens(matchedValueOf(rows[r], preparedColumns(columns)[i].key)))

\* ---- validation lists on the hidden worksheet ----

MaxListCols == 2
MaxListRows == 2

\* value lists: empty, one value holding the separator, the same text split in
\* two values, and lists that differ
ListValueLists == {<<>>, <<Piped>>, <<Ativo, Ativo>>, <<Ativo, Inativo>>, <<Inativo>>}

ListKeys == <<<<"a">>, <<"b">>, <<"c">>>>

ListColumn(i, values) == ObjectColumn(Str(Nome), Str(ListKeys[i]), Select(values))

RECURSIVE ListColumnLists(_)
ListColumnLists(n) ==
    IF n = 0 THEN {<<>>}
    ELSE ListColumnLists(n - 1) \cup
         {Append(q, ListColumn(n, v)) : q \in {y \in ListColumnLists(n - 1) : Len(y) = n - 1},
                                        v \in ListValueLists}

\* records without values, or whose cell under one key brings its own rule, so
\* that the column's list is allocated by a later row
ListRecords ==
    {<<>>} \cup {<<[key |-> ListKeys[i], value |-> RichCell(Str(<<"x">>), LiteralRule("custom"))]>> :
                    i \in 1..MaxListCols}

\* The workbook may already hold a HiddenSelect worksheet filled by the sheet
\* configured before this one.
InitList ==
    /\ pc = "call"
    /\ returned = None
    /\ columns \in ListColumnLists(MaxListCols) \ {<<>>}
    /\ rows \in SeqsUpTo(ListRecords, MaxListRows) \ {<<>>}
    /\ rowIndex = 0
    /\ sheetRows = <<>>
    /\ abaOculta \in {<<>>, <<Inativo>>}
    /\ listaMapeada = <<>>
    /\ config = EmptyConfig
    /\ autoFilter = None
    /\ widths = <<>>
    /\ views = None
    /\ BookIdle /\ CsvIdle
    /\ NormIdle /\ SheetIdle /\ ExtractIdle /\ MapIdle /\ FormatIdle

SpecList == InitList /\ [][NextCreate]_vars

\* ---- claims about the validation lists (checked under SpecList) ----

\* the value lists the columns declare
DeclaredLists ==
    {columns[i].validation.values.items : i \in {j \in 1..Len(columns) : DeclaresSelect(columns[j])}}

\* the rows of the hidden worksheet from row start on hold the values
HoldsAt(hidden, start, values) ==
    /\ start + Len(values) - 1 <= Len(hidden)
    /\ \A k \in 1..Len(values) : hidden[start + k - 1] = values[k]

\* an entry of the dedup map records the range of a declared list with its key
Recorded(entry, hidden) ==
    \E v \in DeclaredLists : chaveOf(v) = entry.key /\ HoldsAt(hidden, entry.value, v)

\* the list written when the entry was recorded, and the rows it occupies
ListOf(entry, hidden) ==
    CHOOSE v \in DeclaredLists : chaveOf(v) = entry.key /\ HoldsAt(hidden, entry.value, v)

RangeOf(entry, hidden) == entry.value .. (entry.value + Len(ListOf(entry, hidden)) - 1)

\* the ranges recorded under distinct keys hold their lists and are disjoint
RangesDisjoint(mapped, hidden) ==
    /\ \A a \in 1..Len(mapped) : Recorded(mapped[a], hidden)
    /\ \A a, b \in 1..Len(mapped) :
          a # b => RangeOf(mapped[a], hidden) \cap RangeOf(mapped[b], hidden) = {}

\* C25: every newly allocated list starts at the hidden worksheet's row count
\* + 1 (the row count as the allocation before it left it), the rows the
\* hidden worksheet already held keep their values, and the ranges recorded
\* for distinct dedup keys are pairwise disjoint.
C25_AllocationsAppend ==
    [][/\ Len(abaOculta') >= Len(abaOculta)
       /\ \A r \in 1..Len(abaOculta) : abaOculta'[r] = abaOculta[r]
       /\ RangesDisjoint(listaMapeada', abaOculta')
       /\ \A k \in (Len(listaMapeada) + 1)..Len(listaMapeada') :
             listaMapeada'[k].value =
                IF k = Len(listaMapeada) + 1
                THEN Len(abaOculta) + 1
                ELSE listaMapeada'[k - 1].value + Len(ListOf(listaMapeada'[k - 1], abaOculta'))]_vars

\* C25 witness: on a hidden worksheet that already held a row, two lists with
\* distinct keys were allocated, the second after the first
C25_Witness ==
    /\ pc = "done"
    /\ Len(listaMapeada) = 2
    /\ listaMapeada[1].value = 2
    /\ listaMapeada[2].value = 4
    /\ Len(abaOculta) = 4

\* C26: for every column declaring a {select, values} validation, the range of
\* the rule written to its cells spans exactly values.length rows, first row
\* <= last row, and the hidden-worksheet row at offset i of the range holds
\* values[i]: also for values holding "|", for lists that differ only in how
\* the values are split, and for the empty list.
C26_RuleRangeHoldsValues ==
    \A r \in 1..Len(sheetRows) : \A i \in SelectColumns(r) :
        LET first == sheetRows[r][i].dataValidation.formulae[2]
            last == sheetRows[r][i].dataValidation.formulae[4]
        IN  /\ first <= last
            /\ last - first + 1 = Len(ValuesOf(i))
            /\ HoldsAt(abaOculta, first, ValuesOf(i))

\* ---- column widths (adjustColumnWidths) ----

MaxWidthCols == 2
MaxWidthRows == 2

\* columns without a width, with a manual width, with width 0, without label text
WidthColumns ==
    {StringColumn(Nome), StringColumn(<<>>), StringColumn(<<"N">>),
     WideColumn(Str(Nome), Undefined), WideColumn(Str(Nome), Num(30)),
     WideColumn(Str(Nome), Num(0)), WideColumn(Num(7), Undefined)}

\* records whose value under nome is absent, short, longer than the label, a number
WidthRecords ==
    {<<>>} \cup {<<[key |-> nome, value |-> v]>> :
                    v \in {Str(<<"x">>), Str(<<"x", "x", "x", "x", "x", "x">>), Num(12345)}}

InitWidth ==
    /\ pc = "call"
    /\ returned = None
    /\ columns \in SeqsUpTo(WidthColumns, MaxWidthCols) \ {<<>>}
    /\ rows \in SeqsUpTo(WidthRecords, MaxWidthRows)
    /\ rowIndex = 0
    /\ sheetRows = <<>>
    /\ abaOculta = <<>>
    /\ listaMapeada = <<>>
    /\ config \in {Config(Undefined, Undefined, a) : a \in {Undefined, Bool(FALSE), Bool(TRUE)}}
    /\ autoFilter = None
    /\ widths = <<>>
    /\ views = None
    /\ BookIdle /\ CsvIdle
    /\ NormIdle /\ SheetIdle /\ ExtractIdle /\ MapIdle /\ FormatIdle

SpecWidth == InitWidth /\ [][NextCreate]_vars

\* ---- claims about the column widths (checked under SpecWidth) ----

MaxOf(S) == CHOOSE n \in S : \A k \in S : k <= n

\* the length of the longest text among the data cells of column i
LongestText(i) ==
    MaxOf({0} \cup {textLength(sheetRows[r][i].value) :
                      r \in {q \in 1..Len(sheetRows) : sheetRows[q][i].value # Null}})

AutoWidthOn == config.ajustColumn # Bool(FALSE)

MaxHeaderCols == 2
MaxHeaderRow == 3

HeaderRowNumbers == {Undefined} \cup {Num(n) : n \in 1..MaxHeaderRow}

HeaderConfigs ==
    {HeaderConfig(fixed, row, headerRow, filter) :
        fixed \in {Undefined, Bool(TRUE)}, row \in HeaderRowNumbers,
        headerRow \in HeaderRowNumbers, filter \in {Undefined, Null, Bool(TRUE), Bool(FALSE)}}

InitHeader ==
    /\ pc = "call"
    /\ returned = None
    /\ columns \in SeqsUpTo({StringColumn(Nome), WideColumn(Str(Nome), Num(30))}, MaxHeaderCols)
    /\ rows \in {<<>>, <<<<[key |-> nome, value |-> Str(<<"x">>)]>>>>}
    /\ rowIndex = 0
    /\ sheetRows = <<>>
    /\ abaOculta = <<>>
    /\ listaMapeada = <<>>
    /\ config \in {Config(h, Undefined, Undefined) : h \in {Undefined} \cup HeaderConfigs}
    /\ autoFilter = None
    /\ widths = <<>>
    /\ views = None
    /\ BookIdle /\ CsvIdle
    /\ NormIdle /\ SheetIdle /\ ExtractIdle /\ MapIdle /\ FormatIdle

SpecHeader == InitHeader /\ [][NextCreate]_vars

\* ---- claims about the header row (checked under SpecHeader) ----

\* the autofilter over columns 1..n of one row
FilterOnRow(row, n) == [from |-> [row |-> row, column |-> 1], to |-> [row |-> row, column |-> n]]

\* C15: once setHeaderRow has run, the autofilter is on the header row over
\* columns 1..number of columns unless filter is false or there is no column,
\* and then there is none, whatever headerRow and row are
C15_FilterOnHeaderRow ==
    (pc # "call" /\ returned \in {None, Undefined}) =>
        IF headerConfigOf(config).filter = Bool(FALSE) \/ Len(columns) = 0
        THEN autoFilter = None
        ELSE autoFilter = FilterOnRow(headerRowOf(headerConfigOf(config)), Len(columns))

\* ---- construction followed by extraction of the same sheet ----

MaxTripRows == 2

\* the columns of the round trip: distinct string labels
TripColumnLists ==
    {<<StringColumn(Nome)>>, <<ObjectColumn(Str(Idade), Undefined, Null)>>,
     <<StringColumn(Nome), ObjectColumn(Str(Idade), Undefined, Null)>>,
     <<ObjectColumn(Str(Idade), Undefined, Null), StringColumn(Nome)>>}

\* non-empty scalar values
TripValues == {Str(<<"x">>), Str(<<" ", "x">>), Num(30), Num(0), Bool(FALSE)}

\* the records that give every column of cols a value under its identifier
TripRecords(cols) ==
    {[i \in 1..Len(cols) |-> [key |-> preparedColumn(cols[i]).key.s, value |-> v[i]]] :
        v \in [1..Len(cols) -> TripValues]}

InitTrip ==
    /\ pc = "call"
    /\ returned = None
    /\ columns \in TripColumnLists
    /\ rows \in SeqsUpTo(TripRecords(columns), MaxTripRows) \ {<<>>}
    /\ rowIndex = 0
    /\ sheetRows = <<>>
    /\ abaOculta = <<>>
    /\ listaMapeada = <<>>
    /\ config = EmptyConfig
    /\ autoFilter = None
    /\ widths = <<>>
    /\ views = None
    /\ BookIdle /\ CsvIdle
    /\ NormIdle /\ SheetIdle /\ ExtractIdle
    /\ necessaryColumns = Array(<<>>)
    /\ OpenIdle
    /\ fkey = None /\ fvalue = None
    /\ tzOffset \in {180}

\* the worksheet is saved and opened again by excelToJson(file, 2): the header
\* labels are on row 1 and the data cells below it
writeFileThenRead ==
    /\ pc = "done"
    /\ returned = Undefined
    /\ initRow = 0
    /\ pc' = "file"
    /\ returned' = None
    /\ headerCells' = [i \in 1..Len(columns) |-> headerOf(columns[i])]
    /\ dataRows' = [r \in 1..Len(sheetRows) |-> [i \in 1..Len(columns) |-> sheetRows[r][i].value]]
    /\ hiddenCols' = {}
    /\ initRow' = 2
    /\ UNCHANGED <<rowNumber, replacements, formattedReplacements>>
    /\ UNCHANGED <<normVars, mapVars, formatVars, createVars>>

NextTrip ==
    \/ configureSheet
    \/ rowsForEach
    \/ configureSheetReturn
    \/ writeFileThenRead
    \/ excelToJsonStart
    \/ extractRow
    \/ excelToJsonReturn

SpecTrip == InitTrip /\ [][NextTrip]_vars

\* ---- claims about the round trip (checked under SpecTrip) ----

\* the record expected for an input row: each column identifier mapped to the
\* string form of the row's value under it
StringFormRecord(rowData) ==
    [i \in 1..Len(columns) |->
        [key |-> formatTextToIdentifier(headerOf(columns[i])).s,
         value |-> String(getProperty(rowData, formatTextToIdentifier(headerOf(columns[i])).s))]]

\* C16: when the extraction of the constructed sheet is over, it has returned,
\* for each input row in order, the record mapping each column identifier to
\* the string form of the value written
C16_RoundTrip ==
    (pc = "done" /\ initRow = 2) =>
        returned = Array([r \in 1..Len(rows) |-> StringFormRecord(rows[r])])

\* ---- CSV bridge: createExcelCsv and csvToXlsx ----

MaxCsvCols == 2
MaxCsvRows == 1
MaxCsvLines == 2

BOM == "U+FEFF"
Quote == "\""

\* `"${col}"`
quoted(text) == <<Quote>> \o text \o <<Quote>>

\* replace(/"/g, '""')
RECURSIVE doubleQuotes(_)
doubleQuotes(s) ==
    IF s = <<>> THEN <<>>
    ELSE (IF Head(s) = Quote THEN <<Quote, Quote>> ELSE <<Head(s)>>) \o doubleQuotes(Tail(s))

\* (row[col] || '').toString()
csvValue(row, col) ==
    IF Truthy(getProperty(row, col.s)) THEN String(getProperty(row, col.s)).s ELSE <<>>

\* columns.map((col) => `"${col}"`).join(';')
csvHeaderLine(cols) == join([i \in 1..Len(cols) |-> quoted(cols[i].s)], <<";">>)

\* the line of one row: every value quoted, its quotes doubled
csvRowLine(row, cols) ==
    join([i \in 1..Len(cols) |-> quoted(doubleQuotes(csvValue(row, cols[i])))], <<";">>)

\* [header, ...rows].join('\n')
csvText(cols, rws) ==
    join(<<csvHeaderLine(cols)>> \o [r \in 1..Len(rws) |-> csvRowLine(rws[r], cols)], <<"\n">>)

\* catch (error): the error of writeFile is wrapped and thrown again
createExcelCsvCatch(error) == Throw(<<"Erro ao criar o arquivo CSV: ", error.message>>)

\* String.prototype.split on the characters of delims
RECURSIVE splitOn(_, _)
splitOn(s, delims) ==
    IF \A k \in 1..Len(s) : s[k] \notin delims THEN <<s>>
    ELSE <<SubSeq(s, 1, (CHOOSE k \in 1..Len(s) : s[k] \in delims /\ \A j \in 1..(k - 1) : s[j] \notin delims) - 1)>>
            \o splitOn(SubSeq(s, (CHOOSE k \in 1..Len(s) : s[k] \in delims /\ \A j \in 1..(k - 1) : s[j] \notin delims) + 1, Len(s)),
                       delims)

\* the lines readline emits: a final line break ends the last line
linesOf(text) ==
    IF splitOn(text, {"\n"})[Len(splitOn(text, {"\n"}))] = <<>>
    THEN SubSeq(splitOn(text, {"\n"}), 1, Len(splitOn(text, {"\n"})) - 1)
    ELSE splitOn(text, {"\n"})

\* a split that uses only the delimiter found first in the line
splitLineFirstDelimiter(line) ==
    IF \A k \in 1..Len(line) : line[k] \notin {";", ","} THEN <<line>>
    ELSE splitOn(line, {line[CHOOSE k \in 1..Len(line) :
                                line[k] \in {";", ","} /\ \A j \in 1..(k - 1) : line[j] \notin {";", ","}]})

\* cleanedLine.split(/;|,/)
splitLine(line) == splitOn(line, {";", ","})

\* the worksheet row of one line: line.trim() split into raw string cells
rowOfLine(line) == [i \in 1..Len(splitLine(trim(line))) |-> Str(splitLine(trim(line))[i])]

\* column labels and row values of createExcelCsv
CsvLabels == {<<"a">>, <<"b">>, <<"a", Quote>>}
CsvValues == {Str(<<"1">>), Str(<<"1", Quote>>), Num(0)}

\* the rows over the labels of cols: each label absent or with a value
CsvRecords(cols) ==
    {r \in SeqsUpTo([key : {cols[i].s : i \in 1..Len(cols)}, value : CsvValues], Len(cols)) :
        \A i, j \in 1..Len(r) : i < j => r[i].key # r[j].key /\
            (\E p, q \in 1..Len(cols) : p < q /\ cols[p].s = r[i].key /\ cols[q].s = r[j].key)}

\* lines of files that were not written by createExcelCsv
CsvLines ==
    {<<>>, <<"a", ";", "b">>, <<"a", ",", "b">>, <<"a", ";", "b", ",", "c">>,
     <<" ", "a", ";", " ">>, <<Quote, "a", ",", "b", Quote>>}

CsvFiles ==
    {prefix \o join(ls, <<"\n">>) \o suffix :
        prefix \in {<<>>, <<BOM>>}, suffix \in {<<>>, <<"\n">>},
        ls \in SeqsUpTo(CsvLines, MaxCsvLines)}

InitCsv ==
    /\ returned = None
    /\ \/ /\ pc = "call"
          /\ columns \in {Array(c) : c \in SeqsUpTo({Str(l) : l \in CsvLabels}, MaxCsvCols)}
          /\ rows \in {Array(r) : r \in SeqsUpTo(CsvRecords(columns.items), MaxCsvRows)}
          /\ csvContent = <<>>
       \/ /\ pc = "csv"
          /\ columns = None
          /\ rows = None
          /\ csvContent \in CsvFiles
    /\ lineNumber = 0
    /\ facadePromise = None
    /\ rowIndex = 0
    /\ sheetRows = <<>>
    /\ abaOculta = <<>>
    /\ listaMapeada = <<>>
    /\ LayoutIdle /\ BookIdle
    /\ NormIdle /\ SheetIdle /\ ExtractIdle /\ MapIdle /\ FormatIdle

\* createExcelCsv: the file holds the byte-order mark and the text, unless
\* writing it fails
createExcelCsv ==
    /\ pc = "call"
    /\ \E writeFails \in BOOLEAN :
          IF writeFails
          THEN /\ pc' = "done"
               /\ returned' = createExcelCsvCatch(Throw("EACCES: permission denied"))
               /\ UNCHANGED <<csvContent, logged>>
          ELSE /\ pc' = "csv"
               /\ csvContent' = <<BOM>> \o csvText(columns.items, rows.items)
               /\ logged' = [kind |-> "created"]
               /\ UNCHANGED returned
    /\ UNCHANGED <<columns, rows, rowIndex, sheetRows, abaOculta, listaMapeada, layoutVars>>
    /\ UNCHANGED <<sheetConfigs, sheetNumber, worksheets, lineNumber, facadePromise>>
    /\ UNCHANGED <<normVars, sheetVars, extractVars, mapVars, formatVars>>

\* csvToXlsx: one iteration of the loop over the lines
csvToXlsxLine ==
    /\ pc = "csv"
    /\ lineNumber < Len(linesOf(csvContent))
    /\ sheetRows' = Append(sheetRows, rowOfLine(linesOf(csvContent)[lineNumber + 1]))
    /\ lineNumber' = lineNumber + 1
    /\ UNCHANGED <<pc, returned, columns, rows, rowIndex, abaOculta, listaMapeada, layoutVars>>
    /\ UNCHANGED <<bookVars, csvContent, facadePromise>>
    /\ UNCHANGED <<normVars, sheetVars, extractVars, mapVars, formatVars>>

\* csvToXlsx: the workbook is written after the loop
csvToXlsxSave ==
    /\ pc = "csv"
    /\ lineNumber = Len(linesOf(csvContent))
    /\ pc' = "done"
    /\ returned' = Undefined
    /\ logged' = [kind |-> "saved", rows |-> sheetRows]
    /\ UNCHANGED <<columns, rows, rowIndex, sheetRows, abaOculta, listaMapeada, layoutVars>>
    /\ UNCHANGED <<sheetConfigs, sheetNumber, worksheets, csvVars>>
    /\ UNCHANGED <<normVars, sheetVars, extractVars, mapVars, formatVars>>

NextCsv ==
    \/ createExcelCsv
    \/ csvToXlsxLine
    \/ csvToXlsxSave

SpecCsv == InitCsv /\ [][NextCsv]_vars

\* ---- claims about the CSV bridge (checked under SpecCsv) ----

\* createExcelCsv has written the file
CsvWritten == columns # None /\ pc # "call" /\ returned \in {None, Undefined}

\* the text of the row's value under the label, empty when there is none
FieldText(row, label) ==
    IF hasOwnProperty(row, label.s) THEN String(getProperty(row, label.s)).s ELSE <<>>

\* a field wrapped in double quotes, its embedded double quotes doubled
EscapedField(text) == quoted(doubleQuotes(text))

\* C18: the file is the byte-order mark, then the header line and one line per
\* row joined with "\n", fields joined with ";", every label and every value
\* text quoted with its quotes doubled, a value's field empty only when the
\* row has no value under the column
C18_CsvText ==
    CsvWritten =>
        csvContent = <<BOM>> \o
            join(<<join([i \in 1..Len(columns.items) |-> EscapedField(columns.items[i].s)], <<";">>)>> \o
                 [r \in 1..Len(rows.items) |->
                    join([i \in 1..Len(columns.items) |-> EscapedField(FieldText(rows.items[r], columns.items[i]))],
                         <<";">>)],
                 <<"\n">>)

\* C17: the file written by createExcelCsv for one or more columns and read
\* back by csvToXlsx gives the header labels, then each row's field values,
\* without byte-order mark and without surrounding quotes
C17_CsvRoundTrip ==
    (CsvWritten /\ pc = "done" /\ Len(columns.items) > 0) =>
        sheetRows = <<[i \in 1..Len(columns.items) |-> columns.items[i]]>> \o
                    [r \in 1..Len(rows.items) |->
                        [i \in 1..Len(columns.items) |-> Str(FieldText(rows.items[r], columns.items[i]))]]

\* the positions of the characters of line that are in delims
DelimiterPositions(line, delims) == {k \in 1..Len(line) : line[k] \in delims}

\* the position of the k-th delimiter, 0 before the first and Len + 1 after the last
DelimiterAt(line, delims, k) ==
    IF k = 0 THEN 0
    ELSE IF k > Cardinality(DelimiterPositions(line, delims)) THEN Len(line) + 1
    ELSE CHOOSE p \in DelimiterPositions(line, delims) :
            Cardinality({q \in DelimiterPositions(line, delims) : q < p}) = k - 1

\* the texts between consecutive delimiters, as raw string cells
FieldsBetween(line, delims) ==
    [k \in 1..(Cardinality(DelimiterPositions(line, delims)) + 1) |->
        Str(SubSeq(line, DelimiterAt(line, delims, k - 1) + 1, DelimiterAt(line, delims, k) - 1))]

\* the delimiter that matches first in the line
FirstDelimiter(line) ==
    IF DelimiterPositions(line, {";", ","}) = {} THEN {}
    ELSE {line[DelimiterAt(line, {";", ","}, 1)]}

\* csvToXlsx is reading the file or has saved the workbook
CsvRead == pc = "csv" \/ (pc = "done" /\ returned = Undefined)

\* C19 (as stated): one worksheet row per line read, in order, each the
\* trimmed line split on the delimiter that matches first in it; the workbook
\* is saved after the last line
C19_SplitOnFirstDelimiter ==
    CsvRead =>
        /\ Len(sheetRows) = lineNumber
        /\ \A n \in 1..lineNumber :
              sheetRows[n] = FieldsBetween(trim(linesOf(csvContent)[n]),
                                           FirstDelimiter(trim(linesOf(csvContent)[n])))
        /\ pc = "done" => lineNumber = Len(linesOf(csvContent)) /\ logged.rows = sheetRows

\* C19 (amended): the same, each trimmed line split at every ";" and every ","
C19_SplitOnEveryDelimiter ==
    CsvRead =>
        /\ Len(sheetRows) = lineNumber
        /\ \A n \in 1..lineNumber :
              sheetRows[n] = FieldsBetween(trim(linesOf(csvContent)[n]), {";", ","})
        /\ pc = "done" => lineNumber = Len(linesOf(csvContent)) /\ logged.rows = sheetRows

\* C19 witness: the workbook is saved with two rows, one of them from a line
\* holding both delimiters and split in three
C19_Witness ==
    /\ pc = "done" /\ returned = Undefined
    /\ lineNumber = 2
    /\ \E n \in 1..lineNumber :
          /\ linesOf(csvContent)[n] = <<"a", ";", "b", ",", "c">>
          /\ sheetRows[n] = <<Str(<<"a">>), Str(<<"b">>), Str(<<"c">>)>>

-----------------------------------------------------------------------------
\* The facade method Excel.createExcelCsv, which calls createExcelCsv.

Resolved(value) == [state |-> "resolved", value |-> value]
Rejected(error) == [state |-> "rejected", value |-> error]

InitFacade ==
    /\ pc = "facade"
    /\ returned = None
    /\ columns \in {Array(c) : c \in SeqsUpTo({Str(l) : l \in CsvLabels}, MaxCsvCols)}
    /\ rows \in {Array(r) : r \in SeqsUpTo(CsvRecords(columns.items), MaxCsvRows)}
    /\ csvContent = <<>>
    /\ lineNumber = 0
    /\ facadePromise = None
    /\ rowIndex = 0
    /\ sheetRows = <<>>
    /\ abaOculta = <<>>
    /\ listaMapeada = <<>>
    /\ LayoutIdle /\ BookIdle
    /\ NormIdle /\ SheetIdle /\ ExtractIdle /\ MapIdle /\ FormatIdle

\* async createExcelCsv(filePath, columns, rows) { createExcelCsv(filePath, columns, rows); }
\* the call of createExcelCsv starts the write and its promise is dropped: the
\* body ends and the promise of the facade resolves with undefined while the
\* write is pending
facadeCreateExcelCsv ==
    /\ pc = "facade"
    /\ pc' = "call"
    /\ facadePromise' = Resolved(Undefined)
    /\ UNCHANGED <<returned, columns, rows, rowIndex, sheetRows, abaOculta, listaMapeada, layoutVars>>
    /\ UNCHANGED <<bookVars, csvContent, lineNumber>>
    /\ UNCHANGED <<normVars, sheetVars, extractVars, mapVars, formatVars>>

NextFacade ==
    \/ facadeCreateExcelCsv
    \/ createExcelCsv

SpecFacade == InitFacade /\ [][NextFacade]_vars

\* the write createExcelCsv started has ended: the file is written or the
\* write failed
WriteEnded == pc \in {"csv", "done"}

\* C30: when the promise returned by Excel.createExcelCsv has settled, the
\* write it started has ended: it is resolved only when the file is written,
\* and a write failure rejects it with the error of createExcelCsv.
C30_SettlesAfterWrite ==
    /\ facadePromise # None =>
          /\ WriteEnded
          /\ IF IsThrow(returned) THEN facadePromise = Rejected(returned)
             ELSE facadePromise = Resolved(Undefined) /\ csvContent # <<>>
    /\ WriteEnded => facadePromise # None

====
